---- MODULE Spec2Model ----
(***************************************************************************)
(* A model of build.py, the uberbespoke static site generator: the         *)
(* configuration (Config), the collectors (Collector, DataCollector,       *)
(* PostCollector), and the build sequence of Master.build.                 *)
(*                                                                         *)
(* Representation of Python values:                                        *)
(*   - a list is a sequence; a dict is a function on its set of keys;      *)
(*   - a string the code only compares or uses as a key is a TLA+ string;  *)
(*   - a string the code takes apart (split, capitalize, strptime) is a    *)
(*     sequence of one-character strings;                                  *)
(*   - a file name is the sequence of its dot-separated components, so     *)
(*     "index.html" is <<"index", "html">>;                                *)
(*   - a character outside printable ASCII is written by its code point,  *)
(*     so "U+0662" is one character, or by its escape, as "\n" and "\r";    *)
(*   - an uncaught exception is recorded by its type name in raised.       *)
(***************************************************************************)
EXTENDS Integers, Sequences, FiniteSets, TLC

VARIABLES
    pc,               \* position of the program
    args,             \* arguments of the call under way
    ret,              \* value returned by the last call
    raised,           \* type of the uncaught exception, "none" when there is none
    fs,               \* the input files read from disk
    user_config,      \* Config.user_config (an attribute that may be unset)
    data_handle,      \* DataCollector.datafiles
    template_handle,  \* TemplateCollector.datafiles
    post_handle,      \* PostCollector.datafiles
    written           \* the output files written so far, in order

vars == <<pc, args, ret, raised, fs, user_config, data_handle,
          template_handle, post_handle, written>>

----------------------------------------------------------------------------
(* Bounds of the model *)

MaxCols == 2
MaxRows == 2
MaxRecords == 3
MaxPosts == 3
MaxStored == 3
MaxLen == 3
MaxIndexs == 2
MaxFailedIndexs == 1
MaxBuildPosts == 2

----------------------------------------------------------------------------
(* Python built-ins *)

EmptyDict == [k \in {} |-> ""]

\* d[k] = v on a dict
DictSet(d, k, v) == (k :> v) @@ d

\* all sequences over S of length at most n
SeqUpTo(S, n) == UNION {[1..k -> S] : k \in 0..n}

NoArgs == [op |-> "none"]

\* self.user_config before any assignment to it
Unset == [bound |-> FALSE, map |-> EmptyDict]

----------------------------------------------------------------------------
(* Collector.apply_headings *)

HeadingNames == {"a", "b"}
FieldValues == {"1", "2"}

\* a faulty variant that keeps the first value of a repeated heading
ApplyRowKeepFirst(headings, object_, i, _new_object) ==
    LET n == IF Len(object_) < Len(headings) THEN Len(object_) ELSE Len(headings)
        first(h) == CHOOSE j \in 1..n : headings[j] = h /\ \A k \in 1..(j-1) : headings[k] # h
    IN  [raised |-> IF Len(object_) > Len(headings) THEN "IndexError" ELSE "none",
         value |-> [h \in {headings[j] : j \in 1..n} |-> object_[first(h)]]]

\* the inner loop over enumerate(object_), from index i on; the result is
\* the record, or the failure of headings[i]
RECURSIVE ApplyRow(_, _, _, _)
ApplyRow(headings, object_, i, _new_object) ==
    IF i > Len(object_) THEN [raised |-> "none", value |-> _new_object]
    ELSE IF i > Len(headings) THEN [raised |-> "IndexError", value |-> _new_object]
    ELSE ApplyRow(headings, object_, i + 1,
                  DictSet(_new_object, headings[i], object_[i]))

\* the outer loop over array_, from row r on
RECURSIVE ApplyRows(_, _, _, _)
ApplyRows(headings, array_, r, _new_array) ==
    IF r > Len(array_) THEN [raised |-> "none", value |-> _new_array]
    ELSE LET row == ApplyRow(headings, array_[r], 1, EmptyDict)
         IN  IF row.raised # "none" THEN [raised |-> row.raised, value |-> <<>>]
             ELSE ApplyRows(headings, array_, r + 1, Append(_new_array, row.value))

apply_headings(headings, array_) == ApplyRows(headings, array_, 1, <<>>)

InitIdle ==
    /\ ret = <<>>
    /\ raised = "none"
    /\ fs = <<>>
    /\ user_config = Unset
    /\ data_handle = <<>>
    /\ template_handle = <<>>
    /\ post_handle = <<>>
    /\ written = <<>>

InitHeadings ==
    /\ pc = "call"
    /\ \E headings \in SeqUpTo(HeadingNames, MaxCols) :
       \E array_ \in SeqUpTo(SeqUpTo(FieldValues, MaxCols + 1), MaxRows) :
          args = [op |-> "apply_headings", headings |-> headings, array_ |-> array_]
    /\ InitIdle

ApplyHeadings ==
    /\ pc = "call"
    /\ args.op = "apply_headings"
    /\ LET r == apply_headings(args.headings, args.array_)
       IN  /\ ret' = r.value
           /\ raised' = r.raised
    /\ pc' = "returned"
    /\ UNCHANGED <<args, fs, user_config, data_handle, template_handle,
                   post_handle, written>>

NextHeadings == ApplyHeadings

SpecHeadings == InitHeadings /\ [][NextHeadings]_vars

----------------------------------------------------------------------------
(* Claims about Collector.apply_headings *)

HeadingsReturned == pc = "returned" /\ args.op = "apply_headings"

\* the last index at which heading h stands in headings
LastIndex(headings, h) ==
    CHOOSE j \in 1..Len(headings) :
        headings[j] = h /\ \A k \in (j+1)..Len(headings) : headings[k] # h

RowsMatchHeadings ==
    \A r \in 1..Len(args.array_) : Len(args.array_[r]) = Len(args.headings)

SomeRowTooLong ==
    \E r \in 1..Len(args.array_) : Len(args.array_[r]) > Len(args.headings)

\* C3, as stated: when every row has exactly len(H) values, apply_headings
\* returns one record per row, in row order, and record[H[i]] == row[i] for
\* every index i.
Cex_C3 ==
    (HeadingsReturned /\ RowsMatchHeadings) =>
        /\ raised = "none"
        /\ Len(ret) = Len(args.array_)
        /\ \A r \in 1..Len(ret) : \A i \in 1..Len(args.headings) :
              ret[r][args.headings[i]] = args.array_[r][i]

\* C3, amended: when every row has exactly len(H) values, apply_headings
\* returns one record per row, in row order, whose keys are the headings,
\* and record[H[i]] is the row's value at the last index where H[i] stands
\* in H; so record[H[i]] == row[i] for every heading that is not repeated
\* later in H.
Thm_C3 ==
    (HeadingsReturned /\ RowsMatchHeadings) =>
        /\ raised = "none"
        /\ Len(ret) = Len(args.array_)
        /\ \A r \in 1..Len(ret) :
              /\ DOMAIN ret[r] = {args.headings[i] : i \in 1..Len(args.headings)}
              /\ \A i \in 1..Len(args.headings) :
                    ret[r][args.headings[i]] =
                        args.array_[r][LastIndex(args.headings, args.headings[i])]

\* two rows of two distinct values under two headings have been converted
Wit_C3 ==
    /\ HeadingsReturned /\ RowsMatchHeadings
    /\ Len(args.headings) = 2 /\ Len(args.array_) = 2
    /\ args.array_[1] # args.array_[2]
    /\ args.array_[1][1] # args.array_[1][2]
    /\ Len(ret) = 2

\* C4: a row with more values than there are headers does not make
\* apply_headings fail; the extra trailing values are dropped and the record
\* is built from the first len(H) values of the row.
Cex_C4 ==
    (HeadingsReturned /\ SomeRowTooLong) =>
        /\ raised = "none"
        /\ Len(ret) = Len(args.array_)
        /\ \A r \in 1..Len(ret) :
              LET n == IF Len(args.array_[r]) < Len(args.headings)
                       THEN Len(args.array_[r]) ELSE Len(args.headings)
              IN  ret[r] = ApplyRow(args.headings, SubSeq(args.array_[r], 1, n),
                                    1, EmptyDict).value

----------------------------------------------------------------------------
(* Collector.getdatafile *)

\* the scan of getdatafile over datafiles, from index i on
RECURSIVE GetDataFileFrom(_, _, _)
GetDataFileFrom(datafiles, name, i) ==
    IF i > Len(datafiles) THEN <<>>
    ELSE IF datafiles[i]["filename"] = name THEN datafiles[i]["data"]
    ELSE GetDataFileFrom(datafiles, name, i + 1)

\* a faulty variant that returns the data of the last record of that name
getdatafileLast(datafiles, name) ==
    IF \E i \in 1..Len(datafiles) : datafiles[i]["filename"] = name
    THEN datafiles[CHOOSE i \in 1..Len(datafiles) :
                     /\ datafiles[i]["filename"] = name
                     /\ \A k \in (i+1)..Len(datafiles) : datafiles[k]["filename"] # name]["data"]
    ELSE <<>>

getdatafile(datafiles, name) == GetDataFileFrom(datafiles, name, 1)

----------------------------------------------------------------------------
(* DataCollector.parse_categories and PostCollector.parse_categories *)

\* str.capitalize on the letters of the model; other characters are unchanged
UpperMap == [c \in {"a", "b", "c"} |->
                IF c = "a" THEN "A" ELSE IF c = "b" THEN "B" ELSE "C"]
LowerMap == [c \in {"A", "B", "C"} |->
                IF c = "A" THEN "a" ELSE IF c = "B" THEN "b" ELSE "c"]
Upper(c) == IF c \in DOMAIN UpperMap THEN UpperMap[c] ELSE c
Lower(c) == IF c \in DOMAIN LowerMap THEN LowerMap[c] ELSE c

\* a faulty variant that leaves the characters after the first as they are
CapitalizeFirstOnly(s) ==
    IF Len(s) = 0 THEN s ELSE [i \in 1..Len(s) |-> IF i = 1 THEN Upper(s[i]) ELSE s[i]]

Capitalize(s) ==
    IF Len(s) = 0 THEN s
    ELSE [i \in 1..Len(s) |-> IF i = 1 THEN Upper(s[i]) ELSE Lower(s[i])]

\* a faulty variant that lists a category every time it occurs
CategoriesEveryTime(datafile, i, categories) ==
    [k \in 1..Len(datafile) |-> datafile[k]["category"]]

\* the first loop of parse_categories: the list of categories, from entry i on
RECURSIVE CategoriesFrom(_, _, _)
CategoriesFrom(datafile, i, categories) ==
    IF i > Len(datafile) THEN categories
    ELSE IF \E k \in 1..Len(categories) : categories[k] = datafile[i]["category"]
         THEN CategoriesFrom(datafile, i + 1, categories)
         ELSE CategoriesFrom(datafile, i + 1,
                             Append(categories, datafile[i]["category"]))

\* list(filter(lambda x: x["category"] == category, datafile))
EntriesOf(datafile, category) ==
    LET Test(x) == x["category"] = category IN SelectSeq(datafile, Test)

\* the keys of a data record are the headings read from its csv file, which
\* are sequences of characters: the key "category", and the key "id" of the
\* model's data files
CategoryText == <<"c", "a", "t", "e", "g", "o", "r", "y">>
IdText == <<"i", "d">>

\* the first loop of DataCollector.parse_categories, from entry i on
RECURSIVE DataCategoriesFrom(_, _, _)
DataCategoriesFrom(datafile, i, categories) ==
    IF i > Len(datafile) THEN categories
    ELSE IF \E k \in 1..Len(categories) : categories[k] = datafile[i][CategoryText]
         THEN DataCategoriesFrom(datafile, i + 1, categories)
         ELSE DataCategoriesFrom(datafile, i + 1,
                                 Append(categories, datafile[i][CategoryText]))

\* list(filter(lambda x: x["category"] == category, datafile)) on data
\* records
DataEntriesOf(datafile, category) ==
    LET Test(x) == x[CategoryText] = category IN SelectSeq(datafile, Test)

\* the groups of DataCollector.parse_categories for the data found
DataGroups(datafile, categories) ==
    [c \in 1..Len(categories) |->
        [name |-> categories[c],
         entries |-> DataEntriesOf(datafile, categories[c])]]

\* the result of DataCollector.parse_categories on the data found for
\* file_: entry["category"] is a KeyError for the first entry without that
\* key, before anything is returned
DataParseGroups(datafile) ==
    IF \E i \in 1..Len(datafile) : CategoryText \notin DOMAIN datafile[i]
    THEN [raised |-> "KeyError", value |-> <<>>]
    ELSE [raised |-> "none",
          value |-> DataGroups(datafile, DataCategoriesFrom(datafile, 1, <<>>))]

\* DataCollector.parse_categories(file_)
DataParseCategories(datafiles, file_) ==
    DataParseGroups(getdatafile(datafiles, file_))

\* the groups of PostCollector.parse_categories
PostGroups(datafiles, categories) ==
    [c \in 1..Len(categories) |->
        [name |-> Capitalize(categories[c]),
         entries |-> EntriesOf(datafiles, categories[c])]]

\* PostCollector.parse_categories: entry["category"] is a KeyError for the
\* first post without that key, before anything is returned
PostParseCategories(datafiles) ==
    IF \E i \in 1..Len(datafiles) : "category" \notin DOMAIN datafiles[i]
    THEN [raised |-> "KeyError", value |-> <<>>]
    ELSE [raised |-> "none",
          value |-> PostGroups(datafiles, CategoriesFrom(datafiles, 1, <<>>))]

CategoryValues == {<<"a">>, <<"A">>, <<"b", "C">>, <<"1", "B">>}
DataFileNames == {<<"projects">>, <<"talks">>}

\* the records of posts, one per category value of cats; id stands for the
\* fields that tell the records apart and is the record's position; the
\* record at position without, if there is one, has no "category"
RecordsOf(cats, without) ==
    [i \in 1..Len(cats) |->
        IF i = without THEN [id |-> i] ELSE [id |-> i, category |-> cats[i]]]

\* the same records as the data of a csv file has them
DataRecordsOf(cats, without) ==
    [i \in 1..Len(cats) |->
        [k \in (IF i = without THEN {IdText} ELSE {IdText, CategoryText}) |->
            IF k = IdText THEN i ELSE cats[i]]]

InitCategories ==
    /\ pc = "call"
    /\ args = NoArgs
    /\ ret = <<>>
    /\ raised = "none"
    /\ fs = <<>>
    /\ user_config = Unset
    /\ template_handle = <<>>
    /\ written = <<>>
    /\ \E cats \in SeqUpTo(CategoryValues, MaxRecords) :
       \E without \in 0..Len(cats) :
          /\ data_handle = <<[filename |-> <<"projects">>,
                              data |-> DataRecordsOf(cats, without)]>>
          /\ post_handle = RecordsOf(cats, without)

CallDataParseCategories ==
    /\ pc = "call"
    /\ \E file_ \in DataFileNames :
          /\ args' = [op |-> "DataCollector.parse_categories", file_ |-> file_]
          /\ ret' = DataParseCategories(data_handle, file_).value
          /\ raised' = DataParseCategories(data_handle, file_).raised
    /\ pc' = "returned"
    /\ UNCHANGED <<fs, user_config, data_handle, template_handle, post_handle,
                   written>>

CallPostParseCategories ==
    /\ pc = "call"
    /\ args' = [op |-> "PostCollector.parse_categories"]
    /\ ret' = PostParseCategories(post_handle).value
    /\ raised' = PostParseCategories(post_handle).raised
    /\ pc' = "returned"
    /\ UNCHANGED <<fs, user_config, data_handle, template_handle, post_handle,
                   written>>

NextCategories == CallDataParseCategories \/ CallPostParseCategories

SpecCategories == InitCategories /\ [][NextCategories]_vars

----------------------------------------------------------------------------
(* Claims about category grouping *)

DataGrouped == pc = "returned" /\ args.op = "DataCollector.parse_categories"
PostGrouped == pc = "returned" /\ args.op = "PostCollector.parse_categories"

\* the records that were grouped
GroupedInput ==
    IF PostGrouped THEN post_handle
    ELSE IF args.file_ = data_handle[1]["filename"] THEN data_handle[1]["data"]
    ELSE <<>>

\* every record that was grouped carries a "category"
AllCarryCategory ==
    \A i \in 1..Len(GroupedInput) :
        IF DataGrouped THEN CategoryText \in DOMAIN GroupedInput[i]
        ELSE "category" \in DOMAIN GroupedInput[i]

\* the "category" and the "id" of a record that was grouped
CategoryOf(x) == IF DataGrouped THEN x[CategoryText] ELSE x["category"]
IdOf(x) == IF DataGrouped THEN x[IdText] ELSE x["id"]

\* the first position of category c in the records s
FirstPos(s, c) ==
    CHOOSE i \in 1..Len(s) :
        CategoryOf(s[i]) = c /\ \A k \in 1..(i-1) : CategoryOf(s[k]) # c

\* the category a group stands for
GroupCategory(g) == CategoryOf(g.entries[1])

\* C1: when every input record carries a "category", the grouping returns,
\* every input record is in exactly one group exactly once, nothing else is
\* in a group, the groups are in the order in which their categories first
\* occur in the input, and the entries of a group keep their relative input
\* order.
Thm_C1 ==
    ((DataGrouped \/ PostGrouped) /\ AllCarryCategory) =>
        LET input == GroupedInput
            places == {p \in (1..Len(ret)) \X (1..Len(input)) :
                          p[2] <= Len(ret[p[1]].entries)}
        IN  /\ raised = "none"
            /\ \A i \in 1..Len(input) :
                  Cardinality({p \in places : ret[p[1]].entries[p[2]] = input[i]}) = 1
            /\ Cardinality(places) = Len(input)
            /\ \A g \in 1..Len(ret) :
                  /\ Len(ret[g].entries) >= 1
                  /\ \A k \in 1..Len(ret[g].entries) :
                        CategoryOf(ret[g].entries[k]) = GroupCategory(ret[g])
                  /\ \A k, l \in 1..Len(ret[g].entries) :
                        k < l => IdOf(ret[g].entries[k]) < IdOf(ret[g].entries[l])
            /\ \A g, h \in 1..Len(ret) :
                  g < h => FirstPos(input, GroupCategory(ret[g]))
                              < FirstPos(input, GroupCategory(ret[h]))

\* three records of two categories, the first category recurring after the
\* second, have been grouped
Wit_C1 ==
    /\ DataGrouped \/ PostGrouped
    /\ AllCarryCategory
    /\ raised = "none"
    /\ Len(GroupedInput) = 3
    /\ CategoryOf(GroupedInput[1]) = CategoryOf(GroupedInput[3])
    /\ CategoryOf(GroupedInput[1]) # CategoryOf(GroupedInput[2])
    /\ Len(ret) = 2

\* C9, as stated: a data group's name is the category value verbatim; a post
\* group's name is the category value with its first letter made uppercase
\* and nothing else changed.
Cex_C9 ==
    /\ DataGrouped =>
          \A g \in 1..Len(ret) : ret[g].name = GroupCategory(ret[g])
    /\ PostGrouped =>
          \A g \in 1..Len(ret) :
              LET c == GroupCategory(ret[g])
              IN  /\ Len(ret[g].name) = Len(c)
                  /\ \A i \in 1..Len(c) :
                        ret[g].name[i] = IF i = 1 THEN Upper(c[i]) ELSE c[i]

\* C9, amended: a data group's name is the category value verbatim; a post
\* group's name is the category value with its first character made
\* uppercase and every later character made lowercase.
Thm_C9 ==
    /\ DataGrouped =>
          \A g \in 1..Len(ret) : ret[g].name = GroupCategory(ret[g])
    /\ PostGrouped =>
          \A g \in 1..Len(ret) :
              LET c == GroupCategory(ret[g])
              IN  /\ Len(ret[g].name) = Len(c)
                  /\ \A i \in 1..Len(c) :
                        ret[g].name[i] = IF i = 1 THEN Upper(c[i]) ELSE Lower(c[i])

\* posts of a category with a lowercase first and an uppercase later letter
\* have been grouped
Wit_C9 ==
    /\ PostGrouped
    /\ \E g \in 1..Len(ret) :
          /\ GroupCategory(ret[g]) = <<"b", "C">>
          /\ ret[g].name = <<"B", "c">>

----------------------------------------------------------------------------
(* PostCollector.parse_date *)

\* datetime.datetime.strptime is the strptime of Python 3.11 with the names
\* of the C locale and the time zone UTC.  A character outside printable
\* ASCII is written by its code point, so "U+0662" is the one character
\* ARABIC-INDIC DIGIT TWO.  None is <<>> and a value v that may be None is
\* <<v>>.

\* the ASCII digits, which the ranges of a pattern are made of
Digits == {"0", "1", "2", "3", "4", "5", "6", "7", "8", "9"}

\* the decimal digits of Unicode, which \d matches and int() converts: the
\* set at index v + 1 holds the digits of value v
DigitSets ==
    <<
      {"0", "U+0660", "U+06F0", "U+07C0", "U+0966", "U+09E6", "U+0A66",
        "U+0AE6", "U+0B66", "U+0BE6", "U+0C66", "U+0CE6", "U+0D66", "U+0DE6",
        "U+0E50", "U+0ED0", "U+0F20", "U+1040", "U+1090", "U+17E0", "U+1810",
        "U+1946", "U+19D0", "U+1A80", "U+1A90", "U+1B50", "U+1BB0", "U+1C40",
        "U+1C50", "U+A620", "U+A8D0", "U+A900", "U+A9D0", "U+A9F0", "U+AA50",
        "U+ABF0", "U+FF10", "U+104A0", "U+10D30", "U+11066", "U+110F0",
        "U+11136", "U+111D0", "U+112F0", "U+11450", "U+114D0", "U+11650",
        "U+116C0", "U+11730", "U+118E0", "U+11950", "U+11C50", "U+11D50",
        "U+11DA0", "U+16A60", "U+16AC0", "U+16B50", "U+1D7CE", "U+1D7D8",
        "U+1D7E2", "U+1D7EC", "U+1D7F6", "U+1E140", "U+1E2F0", "U+1E950",
        "U+1FBF0"},
      {"1", "U+0661", "U+06F1", "U+07C1", "U+0967", "U+09E7", "U+0A67",
        "U+0AE7", "U+0B67", "U+0BE7", "U+0C67", "U+0CE7", "U+0D67", "U+0DE7",
        "U+0E51", "U+0ED1", "U+0F21", "U+1041", "U+1091", "U+17E1", "U+1811",
        "U+1947", "U+19D1", "U+1A81", "U+1A91", "U+1B51", "U+1BB1", "U+1C41",
        "U+1C51", "U+A621", "U+A8D1", "U+A901", "U+A9D1", "U+A9F1", "U+AA51",
        "U+ABF1", "U+FF11", "U+104A1", "U+10D31", "U+11067", "U+110F1",
        "U+11137", "U+111D1", "U+112F1", "U+11451", "U+114D1", "U+11651",
        "U+116C1", "U+11731", "U+118E1", "U+11951", "U+11C51", "U+11D51",
        "U+11DA1", "U+16A61", "U+16AC1", "U+16B51", "U+1D7CF", "U+1D7D9",
        "U+1D7E3", "U+1D7ED", "U+1D7F7", "U+1E141", "U+1E2F1", "U+1E951",
        "U+1FBF1"},
      {"2", "U+0662", "U+06F2", "U+07C2", "U+0968", "U+09E8", "U+0A68",
        "U+0AE8", "U+0B68", "U+0BE8", "U+0C68", "U+0CE8", "U+0D68", "U+0DE8",
        "U+0E52", "U+0ED2", "U+0F22", "U+1042", "U+1092", "U+17E2", "U+1812",
        "U+1948", "U+19D2", "U+1A82", "U+1A92", "U+1B52", "U+1BB2", "U+1C42",
        "U+1C52", "U+A622", "U+A8D2", "U+A902", "U+A9D2", "U+A9F2", "U+AA52",
        "U+ABF2", "U+FF12", "U+104A2", "U+10D32", "U+11068", "U+110F2",
        "U+11138", "U+111D2", "U+112F2", "U+11452", "U+114D2", "U+11652",
        "U+116C2", "U+11732", "U+118E2", "U+11952", "U+11C52", "U+11D52",
        "U+11DA2", "U+16A62", "U+16AC2", "U+16B52", "U+1D7D0", "U+1D7DA",
        "U+1D7E4", "U+1D7EE", "U+1D7F8", "U+1E142", "U+1E2F2", "U+1E952",
        "U+1FBF2"},
      {"3", "U+0663", "U+06F3", "U+07C3", "U+0969", "U+09E9", "U+0A69",
        "U+0AE9", "U+0B69", "U+0BE9", "U+0C69", "U+0CE9", "U+0D69", "U+0DE9",
        "U+0E53", "U+0ED3", "U+0F23", "U+1043", "U+1093", "U+17E3", "U+1813",
        "U+1949", "U+19D3", "U+1A83", "U+1A93", "U+1B53", "U+1BB3", "U+1C43",
        "U+1C53", "U+A623", "U+A8D3", "U+A903", "U+A9D3", "U+A9F3", "U+AA53",
        "U+ABF3", "U+FF13", "U+104A3", "U+10D33", "U+11069", "U+110F3",
        "U+11139", "U+111D3", "U+112F3", "U+11453", "U+114D3", "U+11653",
        "U+116C3", "U+11733", "U+118E3", "U+11953", "U+11C53", "U+11D53",
        "U+11DA3", "U+16A63", "U+16AC3", "U+16B53", "U+1D7D1", "U+1D7DB",
        "U+1D7E5", "U+1D7EF", "U+1D7F9", "U+1E143", "U+1E2F3", "U+1E953",
        "U+1FBF3"},
      {"4", "U+0664", "U+06F4", "U+07C4", "U+096A", "U+09EA", "U+0A6A",
        "U+0AEA", "U+0B6A", "U+0BEA", "U+0C6A", "U+0CEA", "U+0D6A", "U+0DEA",
        "U+0E54", "U+0ED4", "U+0F24", "U+1044", "U+1094", "U+17E4", "U+1814",
        "U+194A", "U+19D4", "U+1A84", "U+1A94", "U+1B54", "U+1BB4", "U+1C44",
        "U+1C54", "U+A624", "U+A8D4", "U+A904", "U+A9D4", "U+A9F4", "U+AA54",
        "U+ABF4", "U+FF14", "U+104A4", "U+10D34", "U+1106A", "U+110F4",
        "U+1113A", "U+111D4", "U+112F4", "U+11454", "U+114D4", "U+11654",
        "U+116C4", "U+11734", "U+118E4", "U+11954", "U+11C54", "U+11D54",
        "U+11DA4", "U+16A64", "U+16AC4", "U+16B54", "U+1D7D2", "U+1D7DC",
        "U+1D7E6", "U+1D7F0", "U+1D7FA", "U+1E144", "U+1E2F4", "U+1E954",
        "U+1FBF4"},
      {"5", "U+0665", "U+06F5", "U+07C5", "U+096B", "U+09EB", "U+0A6B",
        "U+0AEB", "U+0B6B", "U+0BEB", "U+0C6B", "U+0CEB", "U+0D6B", "U+0DEB",
        "U+0E55", "U+0ED5", "U+0F25", "U+1045", "U+1095", "U+17E5", "U+1815",
        "U+194B", "U+19D5", "U+1A85", "U+1A95", "U+1B55", "U+1BB5", "U+1C45",
        "U+1C55", "U+A625", "U+A8D5", "U+A905", "U+A9D5", "U+A9F5", "U+AA55",
        "U+ABF5", "U+FF15", "U+104A5", "U+10D35", "U+1106B", "U+110F5",
        "U+1113B", "U+111D5", "U+112F5", "U+11455", "U+114D5", "U+11655",
        "U+116C5", "U+11735", "U+118E5", "U+11955", "U+11C55", "U+11D55",
        "U+11DA5", "U+16A65", "U+16AC5", "U+16B55", "U+1D7D3", "U+1D7DD",
        "U+1D7E7", "U+1D7F1", "U+1D7FB", "U+1E145", "U+1E2F5", "U+1E955",
        "U+1FBF5"},
      {"6", "U+0666", "U+06F6", "U+07C6", "U+096C", "U+09EC", "U+0A6C",
        "U+0AEC", "U+0B6C", "U+0BEC", "U+0C6C", "U+0CEC", "U+0D6C", "U+0DEC",
        "U+0E56", "U+0ED6", "U+0F26", "U+1046", "U+1096", "U+17E6", "U+1816",
        "U+194C", "U+19D6", "U+1A86", "U+1A96", "U+1B56", "U+1BB6", "U+1C46",
        "U+1C56", "U+A626", "U+A8D6", "U+A906", "U+A9D6", "U+A9F6", "U+AA56",
        "U+ABF6", "U+FF16", "U+104A6", "U+10D36", "U+1106C", "U+110F6",
        "U+1113C", "U+111D6", "U+112F6", "U+11456", "U+114D6", "U+11656",
        "U+116C6", "U+11736", "U+118E6", "U+11956", "U+11C56", "U+11D56",
        "U+11DA6", "U+16A66", "U+16AC6", "U+16B56", "U+1D7D4", "U+1D7DE",
        "U+1D7E8", "U+1D7F2", "U+1D7FC", "U+1E146", "U+1E2F6", "U+1E956",
        "U+1FBF6"},
      {"7", "U+0667", "U+06F7", "U+07C7", "U+096D", "U+09ED", "U+0A6D",
        "U+0AED", "U+0B6D", "U+0BED", "U+0C6D", "U+0CED", "U+0D6D", "U+0DED",
        "U+0E57", "U+0ED7", "U+0F27", "U+1047", "U+1097", "U+17E7", "U+1817",
        "U+194D", "U+19D7", "U+1A87", "U+1A97", "U+1B57", "U+1BB7", "U+1C47",
        "U+1C57", "U+A627", "U+A8D7", "U+A907", "U+A9D7", "U+A9F7", "U+AA57",
        "U+ABF7", "U+FF17", "U+104A7", "U+10D37", "U+1106D", "U+110F7",
        "U+1113D", "U+111D7", "U+112F7", "U+11457", "U+114D7", "U+11657",
        "U+116C7", "U+11737", "U+118E7", "U+11957", "U+11C57", "U+11D57",
        "U+11DA7", "U+16A67", "U+16AC7", "U+16B57", "U+1D7D5", "U+1D7DF",
        "U+1D7E9", "U+1D7F3", "U+1D7FD", "U+1E147", "U+1E2F7", "U+1E957",
        "U+1FBF7"},
      {"8", "U+0668", "U+06F8", "U+07C8", "U+096E", "U+09EE", "U+0A6E",
        "U+0AEE", "U+0B6E", "U+0BEE", "U+0C6E", "U+0CEE", "U+0D6E", "U+0DEE",
        "U+0E58", "U+0ED8", "U+0F28", "U+1048", "U+1098", "U+17E8", "U+1818",
        "U+194E", "U+19D8", "U+1A88", "U+1A98", "U+1B58", "U+1BB8", "U+1C48",
        "U+1C58", "U+A628", "U+A8D8", "U+A908", "U+A9D8", "U+A9F8", "U+AA58",
        "U+ABF8", "U+FF18", "U+104A8", "U+10D38", "U+1106E", "U+110F8",
        "U+1113E", "U+111D8", "U+112F8", "U+11458", "U+114D8", "U+11658",
        "U+116C8", "U+11738", "U+118E8", "U+11958", "U+11C58", "U+11D58",
        "U+11DA8", "U+16A68", "U+16AC8", "U+16B58", "U+1D7D6", "U+1D7E0",
        "U+1D7EA", "U+1D7F4", "U+1D7FE", "U+1E148", "U+1E2F8", "U+1E958",
        "U+1FBF8"},
      {"9", "U+0669", "U+06F9", "U+07C9", "U+096F", "U+09EF", "U+0A6F",
        "U+0AEF", "U+0B6F", "U+0BEF", "U+0C6F", "U+0CEF", "U+0D6F", "U+0DEF",
        "U+0E59", "U+0ED9", "U+0F29", "U+1049", "U+1099", "U+17E9", "U+1819",
        "U+194F", "U+19D9", "U+1A89", "U+1A99", "U+1B59", "U+1BB9", "U+1C49",
        "U+1C59", "U+A629", "U+A8D9", "U+A909", "U+A9D9", "U+A9F9", "U+AA59",
        "U+ABF9", "U+FF19", "U+104A9", "U+10D39", "U+1106F", "U+110F9",
        "U+1113F", "U+111D9", "U+112F9", "U+11459", "U+114D9", "U+11659",
        "U+116C9", "U+11739", "U+118E9", "U+11959", "U+11C59", "U+11D59",
        "U+11DA9", "U+16A69", "U+16AC9", "U+16B59", "U+1D7D7", "U+1D7E1",
        "U+1D7EB", "U+1D7F5", "U+1D7FF", "U+1E149", "U+1E2F9", "U+1E959",
        "U+1FBF9"} >>

DecimalDigits == UNION {DigitSets[v] : v \in 1..10}

DigitValue(c) == (CHOOSE v \in 1..10 : c \in DigitSets[v]) - 1

\* the characters \s matches
Whitespace ==
    {"\t", "\n", "U+000B", "\f", "\r", "U+001C", "U+001D", "U+001E",
      "U+001F", " ", "U+0085", "U+00A0", "U+1680", "U+2000", "U+2001",
      "U+2002", "U+2003", "U+2004", "U+2005", "U+2006", "U+2007", "U+2008",
      "U+2009", "U+200A", "U+2028", "U+2029", "U+202F", "U+205F", "U+3000"}

\* the characters that match one another when the case is ignored, in sets
CaseClasses ==
    {{"A", "a"}, {"B", "b"}, {"C", "c"}, {"D", "d"}, {"E", "e"}, {"F", "f"},
      {"G", "g"}, {"H", "h"}, {"I", "i", "U+0130", "U+0131"}, {"J", "j"},
      {"K", "k", "U+212A"}, {"L", "l"}, {"M", "m"}, {"N", "n"}, {"O", "o"},
      {"P", "p"}, {"Q", "q"}, {"R", "r"}, {"S", "s", "U+017F"}, {"T", "t"},
      {"U", "u"}, {"V", "v"}, {"W", "w"}, {"X", "x"}, {"Y", "y"}, {"Z", "z"},
      {"U+00B5", "U+039C", "U+03BC"}, {"U+00C0", "U+00E0"},
      {"U+00C1", "U+00E1"}, {"U+00C2", "U+00E2"}, {"U+00C3", "U+00E3"},
      {"U+00C4", "U+00E4"}, {"U+00C5", "U+00E5", "U+212B"},
      {"U+00C6", "U+00E6"}, {"U+00C7", "U+00E7"}, {"U+00C8", "U+00E8"},
      {"U+00C9", "U+00E9"}, {"U+00CA", "U+00EA"}, {"U+00CB", "U+00EB"},
      {"U+00CC", "U+00EC"}, {"U+00CD", "U+00ED"}, {"U+00CE", "U+00EE"},
      {"U+00CF", "U+00EF"}, {"U+00D0", "U+00F0"}, {"U+00D1", "U+00F1"},
      {"U+00D2", "U+00F2"}, {"U+00D3", "U+00F3"}, {"U+00D4", "U+00F4"},
      {"U+00D5", "U+00F5"}, {"U+00D6", "U+00F6"}, {"U+00D8", "U+00F8"},
      {"U+00D9", "U+00F9"}, {"U+00DA", "U+00FA"}, {"U+00DB", "U+00FB"},
      {"U+00DC", "U+00FC"}, {"U+00DD", "U+00FD"}, {"U+00DE", "U+00FE"},
      {"U+00DF", "U+1E9E"}, {"U+00FF", "U+0178"}, {"U+0100", "U+0101"},
      {"U+0102", "U+0103"}, {"U+0104", "U+0105"}, {"U+0106", "U+0107"},
      {"U+0108", "U+0109"}, {"U+010A", "U+010B"}, {"U+010C", "U+010D"},
      {"U+010E", "U+010F"}, {"U+0110", "U+0111"}, {"U+0112", "U+0113"},
      {"U+0114", "U+0115"}, {"U+0116", "U+0117"}, {"U+0118", "U+0119"},
      {"U+011A", "U+011B"}, {"U+011C", "U+011D"}, {"U+011E", "U+011F"},
      {"U+0120", "U+0121"}, {"U+0122", "U+0123"}, {"U+0124", "U+0125"},
      {"U+0126", "U+0127"}, {"U+0128", "U+0129"}, {"U+012A", "U+012B"},
      {"U+012C", "U+012D"}, {"U+012E", "U+012F"}, {"U+0132", "U+0133"},
      {"U+0134", "U+0135"}, {"U+0136", "U+0137"}, {"U+0139", "U+013A"},
      {"U+013B", "U+013C"}, {"U+013D", "U+013E"}, {"U+013F", "U+0140"},
      {"U+0141", "U+0142"}, {"U+0143", "U+0144"}, {"U+0145", "U+0146"},
      {"U+0147", "U+0148"}, {"U+014A", "U+014B"}, {"U+014C", "U+014D"},
      {"U+014E", "U+014F"}, {"U+0150", "U+0151"}, {"U+0152", "U+0153"},
      {"U+0154", "U+0155"}, {"U+0156", "U+0157"}, {"U+0158", "U+0159"},
      {"U+015A", "U+015B"}, {"U+015C", "U+015D"}, {"U+015E", "U+015F"},
      {"U+0160", "U+0161"}, {"U+0162", "U+0163"}, {"U+0164", "U+0165"},
      {"U+0166", "U+0167"}, {"U+0168", "U+0169"}, {"U+016A", "U+016B"},
      {"U+016C", "U+016D"}, {"U+016E", "U+016F"}, {"U+0170", "U+0171"},
      {"U+0172", "U+0173"}, {"U+0174", "U+0175"}, {"U+0176", "U+0177"},
      {"U+0179", "U+017A"}, {"U+017B", "U+017C"}, {"U+017D", "U+017E"},
      {"U+0180", "U+0243"}, {"U+0181", "U+0253"}, {"U+0182", "U+0183"},
      {"U+0184", "U+0185"}, {"U+0186", "U+0254"}, {"U+0187", "U+0188"},
      {"U+0189", "U+0256"}, {"U+018A", "U+0257"}, {"U+018B", "U+018C"},
      {"U+018E", "U+01DD"}, {"U+018F", "U+0259"}, {"U+0190", "U+025B"},
      {"U+0191", "U+0192"}, {"U+0193", "U+0260"}, {"U+0194", "U+0263"},
      {"U+0195", "U+01F6"}, {"U+0196", "U+0269"}, {"U+0197", "U+0268"},
      {"U+0198", "U+0199"}, {"U+019A", "U+023D"}, {"U+019C", "U+026F"},
      {"U+019D", "U+0272"}, {"U+019E", "U+0220"}, {"U+019F", "U+0275"},
      {"U+01A0", "U+01A1"}, {"U+01A2", "U+01A3"}, {"U+01A4", "U+01A5"},
      {"U+01A6", "U+0280"}, {"U+01A7", "U+01A8"}, {"U+01A9", "U+0283"},
      {"U+01AC", "U+01AD"}, {"U+01AE", "U+0288"}, {"U+01AF", "U+01B0"},
      {"U+01B1", "U+028A"}, {"U+01B2", "U+028B"}, {"U+01B3", "U+01B4"},
      {"U+01B5", "U+01B6"}, {"U+01B7", "U+0292"}, {"U+01B8", "U+01B9"},
      {"U+01BC", "U+01BD"}, {"U+01BF", "U+01F7"},
      {"U+01C4", "U+01C5", "U+01C6"}, {"U+01C7", "U+01C8", "U+01C9"},
      {"U+01CA", "U+01CB", "U+01CC"}, {"U+01CD", "U+01CE"},
      {"U+01CF", "U+01D0"}, {"U+01D1", "U+01D2"}, {"U+01D3", "U+01D4"},
      {"U+01D5", "U+01D6"}, {"U+01D7", "U+01D8"}, {"U+01D9", "U+01DA"},
      {"U+01DB", "U+01DC"}, {"U+01DE", "U+01DF"}, {"U+01E0", "U+01E1"},
      {"U+01E2", "U+01E3"}, {"U+01E4", "U+01E5"}, {"U+01E6", "U+01E7"},
      {"U+01E8", "U+01E9"}, {"U+01EA", "U+01EB"}, {"U+01EC", "U+01ED"},
      {"U+01EE", "U+01EF"}, {"U+01F1", "U+01F2", "U+01F3"},
      {"U+01F4", "U+01F5"}, {"U+01F8", "U+01F9"}, {"U+01FA", "U+01FB"},
      {"U+01FC", "U+01FD"}, {"U+01FE", "U+01FF"}, {"U+0200", "U+0201"},
      {"U+0202", "U+0203"}, {"U+0204", "U+0205"}, {"U+0206", "U+0207"},
      {"U+0208", "U+0209"}, {"U+020A", "U+020B"}, {"U+020C", "U+020D"},
      {"U+020E", "U+020F"}, {"U+0210", "U+0211"}, {"U+0212", "U+0213"},
      {"U+0214", "U+0215"}, {"U+0216", "U+0217"}, {"U+0218", "U+0219"},
      {"U+021A", "U+021B"}, {"U+021C", "U+021D"}, {"U+021E", "U+021F"},
      {"U+0222", "U+0223"}, {"U+0224", "U+0225"}, {"U+0226", "U+0227"},
      {"U+0228", "U+0229"}, {"U+022A", "U+022B"}, {"U+022C", "U+022D"},
      {"U+022E", "U+022F"}, {"U+0230", "U+0231"}, {"U+0232", "U+0233"},
      {"U+023A", "U+2C65"}, {"U+023B", "U+023C"}, {"U+023E", "U+2C66"},
      {"U+023F", "U+2C7E"}, {"U+0240", "U+2C7F"}, {"U+0241", "U+0242"},
      {"U+0244", "U+0289"}, {"U+0245", "U+028C"}, {"U+0246", "U+0247"},
      {"U+0248", "U+0249"}, {"U+024A", "U+024B"}, {"U+024C", "U+024D"},
      {"U+024E", "U+024F"}, {"U+0250", "U+2C6F"}, {"U+0251", "U+2C6D"},
      {"U+0252", "U+2C70"}, {"U+025C", "U+A7AB"}, {"U+0261", "U+A7AC"},
      {"U+0265", "U+A78D"}, {"U+0266", "U+A7AA"}, {"U+026A", "U+A7AE"},
      {"U+026B", "U+2C62"}, {"U+026C", "U+A7AD"}, {"U+0271", "U+2C6E"},
      {"U+027D", "U+2C64"}, {"U+0282", "U+A7C5"}, {"U+0287", "U+A7B1"},
      {"U+029D", "U+A7B2"}, {"U+029E", "U+A7B0"},
      {"U+0345", "U+0399", "U+03B9", "U+1FBE"}, {"U+0370", "U+0371"},
      {"U+0372", "U+0373"}, {"U+0376", "U+0377"}, {"U+037B", "U+03FD"},
      {"U+037C", "U+03FE"}, {"U+037D", "U+03FF"}, {"U+037F", "U+03F3"},
      {"U+0386", "U+03AC"}, {"U+0388", "U+03AD"}, {"U+0389", "U+03AE"},
      {"U+038A", "U+03AF"}, {"U+038C", "U+03CC"}, {"U+038E", "U+03CD"},
      {"U+038F", "U+03CE"}, {"U+0390", "U+1FD3"}, {"U+0391", "U+03B1"},
      {"U+0392", "U+03B2", "U+03D0"}, {"U+0393", "U+03B3"},
      {"U+0394", "U+03B4"}, {"U+0395", "U+03B5", "U+03F5"},
      {"U+0396", "U+03B6"}, {"U+0397", "U+03B7"},
      {"U+0398", "U+03B8", "U+03D1", "U+03F4"},
      {"U+039A", "U+03BA", "U+03F0"}, {"U+039B", "U+03BB"},
      {"U+039D", "U+03BD"}, {"U+039E", "U+03BE"}, {"U+039F", "U+03BF"},
      {"U+03A0", "U+03C0", "U+03D6"}, {"U+03A1", "U+03C1", "U+03F1"},
      {"U+03A3", "U+03C2", "U+03C3"}, {"U+03A4", "U+03C4"},
      {"U+03A5", "U+03C5"}, {"U+03A6", "U+03C6", "U+03D5"},
      {"U+03A7", "U+03C7"}, {"U+03A8", "U+03C8"},
      {"U+03A9", "U+03C9", "U+2126"}, {"U+03AA", "U+03CA"},
      {"U+03AB", "U+03CB"}, {"U+03B0", "U+1FE3"}, {"U+03CF", "U+03D7"},
      {"U+03D8", "U+03D9"}, {"U+03DA", "U+03DB"}, {"U+03DC", "U+03DD"},
      {"U+03DE", "U+03DF"}, {"U+03E0", "U+03E1"}, {"U+03E2", "U+03E3"},
      {"U+03E4", "U+03E5"}, {"U+03E6", "U+03E7"}, {"U+03E8", "U+03E9"},
      {"U+03EA", "U+03EB"}, {"U+03EC", "U+03ED"}, {"U+03EE", "U+03EF"},
      {"U+03F2", "U+03F9"}, {"U+03F7", "U+03F8"}, {"U+03FA", "U+03FB"},
      {"U+0400", "U+0450"}, {"U+0401", "U+0451"}, {"U+0402", "U+0452"},
      {"U+0403", "U+0453"}, {"U+0404", "U+0454"}, {"U+0405", "U+0455"},
      {"U+0406", "U+0456"}, {"U+0407", "U+0457"}, {"U+0408", "U+0458"},
      {"U+0409", "U+0459"}, {"U+040A", "U+045A"}, {"U+040B", "U+045B"},
      {"U+040C", "U+045C"}, {"U+040D", "U+045D"}, {"U+040E", "U+045E"},
      {"U+040F", "U+045F"}, {"U+0410", "U+0430"}, {"U+0411", "U+0431"},
      {"U+0412", "U+0432", "U+1C80"}, {"U+0413", "U+0433"},
      {"U+0414", "U+0434", "U+1C81"}, {"U+0415", "U+0435"},
      {"U+0416", "U+0436"}, {"U+0417", "U+0437"}, {"U+0418", "U+0438"},
      {"U+0419", "U+0439"}, {"U+041A", "U+043A"}, {"U+041B", "U+043B"},
      {"U+041C", "U+043C"}, {"U+041D", "U+043D"},
      {"U+041E", "U+043E", "U+1C82"}, {"U+041F", "U+043F"},
      {"U+0420", "U+0440"}, {"U+0421", "U+0441", "U+1C83"},
      {"U+0422", "U+0442", "U+1C84", "U+1C85"}, {"U+0423", "U+0443"},
      {"U+0424", "U+0444"}, {"U+0425", "U+0445"}, {"U+0426", "U+0446"},
      {"U+0427", "U+0447"}, {"U+0428", "U+0448"}, {"U+0429", "U+0449"},
      {"U+042A", "U+044A", "U+1C86"}, {"U+042B", "U+044B"},
      {"U+042C", "U+044C"}, {"U+042D", "U+044D"}, {"U+042E", "U+044E"},
      {"U+042F", "U+044F"}, {"U+0460", "U+0461"},
      {"U+0462", "U+0463", "U+1C87"}, {"U+0464", "U+0465"},
      {"U+0466", "U+0467"}, {"U+0468", "U+0469"}, {"U+046A", "U+046B"},
      {"U+046C", "U+046D"}, {"U+046E", "U+046F"}, {"U+0470", "U+0471"},
      {"U+0472", "U+0473"}, {"U+0474", "U+0475"}, {"U+0476", "U+0477"},
      {"U+0478", "U+0479"}, {"U+047A", "U+047B"}, {"U+047C", "U+047D"},
      {"U+047E", "U+047F"}, {"U+0480", "U+0481"}, {"U+048A", "U+048B"},
      {"U+048C", "U+048D"}, {"U+048E", "U+048F"}, {"U+0490", "U+0491"},
      {"U+0492", "U+0493"}, {"U+0494", "U+0495"}, {"U+0496", "U+0497"},
      {"U+0498", "U+0499"}, {"U+049A", "U+049B"}, {"U+049C", "U+049D"},
      {"U+049E", "U+049F"}, {"U+04A0", "U+04A1"}, {"U+04A2", "U+04A3"},
      {"U+04A4", "U+04A5"}, {"U+04A6", "U+04A7"}, {"U+04A8", "U+04A9"},
      {"U+04AA", "U+04AB"}, {"U+04AC", "U+04AD"}, {"U+04AE", "U+04AF"},
      {"U+04B0", "U+04B1"}, {"U+04B2", "U+04B3"}, {"U+04B4", "U+04B5"},
      {"U+04B6", "U+04B7"}, {"U+04B8", "U+04B9"}, {"U+04BA", "U+04BB"},
      {"U+04BC", "U+04BD"}, {"U+04BE", "U+04BF"}, {"U+04C0", "U+04CF"},
      {"U+04C1", "U+04C2"}, {"U+04C3", "U+04C4"}, {"U+04C5", "U+04C6"},
      {"U+04C7", "U+04C8"}, {"U+04C9", "U+04CA"}, {"U+04CB", "U+04CC"},
      {"U+04CD", "U+04CE"}, {"U+04D0", "U+04D1"}, {"U+04D2", "U+04D3"},
      {"U+04D4", "U+04D5"}, {"U+04D6", "U+04D7"}, {"U+04D8", "U+04D9"},
      {"U+04DA", "U+04DB"}, {"U+04DC", "U+04DD"}, {"U+04DE", "U+04DF"},
      {"U+04E0", "U+04E1"}, {"U+04E2", "U+04E3"}, {"U+04E4", "U+04E5"},
      {"U+04E6", "U+04E7"}, {"U+04E8", "U+04E9"}, {"U+04EA", "U+04EB"},
      {"U+04EC", "U+04ED"}, {"U+04EE", "U+04EF"}, {"U+04F0", "U+04F1"},
      {"U+04F2", "U+04F3"}, {"U+04F4", "U+04F5"}, {"U+04F6", "U+04F7"},
      {"U+04F8", "U+04F9"}, {"U+04FA", "U+04FB"}, {"U+04FC", "U+04FD"},
      {"U+04FE", "U+04FF"}, {"U+0500", "U+0501"}, {"U+0502", "U+0503"},
      {"U+0504", "U+0505"}, {"U+0506", "U+0507"}, {"U+0508", "U+0509"},
      {"U+050A", "U+050B"}, {"U+050C", "U+050D"}, {"U+050E", "U+050F"},
      {"U+0510", "U+0511"}, {"U+0512", "U+0513"}, {"U+0514", "U+0515"},
      {"U+0516", "U+0517"}, {"U+0518", "U+0519"}, {"U+051A", "U+051B"},
      {"U+051C", "U+051D"}, {"U+051E", "U+051F"}, {"U+0520", "U+0521"},
      {"U+0522", "U+0523"}, {"U+0524", "U+0525"}, {"U+0526", "U+0527"},
      {"U+0528", "U+0529"}, {"U+052A", "U+052B"}, {"U+052C", "U+052D"},
      {"U+052E", "U+052F"}, {"U+0531", "U+0561"}, {"U+0532", "U+0562"},
      {"U+0533", "U+0563"}, {"U+0534", "U+0564"}, {"U+0535", "U+0565"},
      {"U+0536", "U+0566"}, {"U+0537", "U+0567"}, {"U+0538", "U+0568"},
      {"U+0539", "U+0569"}, {"U+053A", "U+056A"}, {"U+053B", "U+056B"},
      {"U+053C", "U+056C"}, {"U+053D", "U+056D"}, {"U+053E", "U+056E"},
      {"U+053F", "U+056F"}, {"U+0540", "U+0570"}, {"U+0541", "U+0571"},
      {"U+0542", "U+0572"}, {"U+0543", "U+0573"}, {"U+0544", "U+0574"},
      {"U+0545", "U+0575"}, {"U+0546", "U+0576"}, {"U+0547", "U+0577"},
      {"U+0548", "U+0578"}, {"U+0549", "U+0579"}, {"U+054A", "U+057A"},
      {"U+054B", "U+057B"}, {"U+054C", "U+057C"}, {"U+054D", "U+057D"},
      {"U+054E", "U+057E"}, {"U+054F", "U+057F"}, {"U+0550", "U+0580"},
      {"U+0551", "U+0581"}, {"U+0552", "U+0582"}, {"U+0553", "U+0583"},
      {"U+0554", "U+0584"}, {"U+0555", "U+0585"}, {"U+0556", "U+0586"},
      {"U+10A0", "U+2D00"}, {"U+10A1", "U+2D01"}, {"U+10A2", "U+2D02"},
      {"U+10A3", "U+2D03"}, {"U+10A4", "U+2D04"}, {"U+10A5", "U+2D05"},
      {"U+10A6", "U+2D06"}, {"U+10A7", "U+2D07"}, {"U+10A8", "U+2D08"},
      {"U+10A9", "U+2D09"}, {"U+10AA", "U+2D0A"}, {"U+10AB", "U+2D0B"},
      {"U+10AC", "U+2D0C"}, {"U+10AD", "U+2D0D"}, {"U+10AE", "U+2D0E"},
      {"U+10AF", "U+2D0F"}, {"U+10B0", "U+2D10"}, {"U+10B1", "U+2D11"},
      {"U+10B2", "U+2D12"}, {"U+10B3", "U+2D13"}, {"U+10B4", "U+2D14"},
      {"U+10B5", "U+2D15"}, {"U+10B6", "U+2D16"}, {"U+10B7", "U+2D17"},
      {"U+10B8", "U+2D18"}, {"U+10B9", "U+2D19"}, {"U+10BA", "U+2D1A"},
      {"U+10BB", "U+2D1B"}, {"U+10BC", "U+2D1C"}, {"U+10BD", "U+2D1D"},
      {"U+10BE", "U+2D1E"}, {"U+10BF", "U+2D1F"}, {"U+10C0", "U+2D20"},
      {"U+10C1", "U+2D21"}, {"U+10C2", "U+2D22"}, {"U+10C3", "U+2D23"},
      {"U+10C4", "U+2D24"}, {"U+10C5", "U+2D25"}, {"U+10C7", "U+2D27"},
      {"U+10CD", "U+2D2D"}, {"U+10D0", "U+1C90"}, {"U+10D1", "U+1C91"},
      {"U+10D2", "U+1C92"}, {"U+10D3", "U+1C93"}, {"U+10D4", "U+1C94"},
      {"U+10D5", "U+1C95"}, {"U+10D6", "U+1C96"}, {"U+10D7", "U+1C97"},
      {"U+10D8", "U+1C98"}, {"U+10D9", "U+1C99"}, {"U+10DA", "U+1C9A"},
      {"U+10DB", "U+1C9B"}, {"U+10DC", "U+1C9C"}, {"U+10DD", "U+1C9D"},
      {"U+10DE", "U+1C9E"}, {"U+10DF", "U+1C9F"}, {"U+10E0", "U+1CA0"},
      {"U+10E1", "U+1CA1"}, {"U+10E2", "U+1CA2"}, {"U+10E3", "U+1CA3"},
      {"U+10E4", "U+1CA4"}, {"U+10E5", "U+1CA5"}, {"U+10E6", "U+1CA6"},
      {"U+10E7", "U+1CA7"}, {"U+10E8", "U+1CA8"}, {"U+10E9", "U+1CA9"},
      {"U+10EA", "U+1CAA"}, {"U+10EB", "U+1CAB"}, {"U+10EC", "U+1CAC"},
      {"U+10ED", "U+1CAD"}, {"U+10EE", "U+1CAE"}, {"U+10EF", "U+1CAF"},
      {"U+10F0", "U+1CB0"}, {"U+10F1", "U+1CB1"}, {"U+10F2", "U+1CB2"},
      {"U+10F3", "U+1CB3"}, {"U+10F4", "U+1CB4"}, {"U+10F5", "U+1CB5"},
      {"U+10F6", "U+1CB6"}, {"U+10F7", "U+1CB7"}, {"U+10F8", "U+1CB8"},
      {"U+10F9", "U+1CB9"}, {"U+10FA", "U+1CBA"}, {"U+10FD", "U+1CBD"},
      {"U+10FE", "U+1CBE"}, {"U+10FF", "U+1CBF"}, {"U+13A0", "U+AB70"},
      {"U+13A1", "U+AB71"}, {"U+13A2", "U+AB72"}, {"U+13A3", "U+AB73"},
      {"U+13A4", "U+AB74"}, {"U+13A5", "U+AB75"}, {"U+13A6", "U+AB76"},
      {"U+13A7", "U+AB77"}, {"U+13A8", "U+AB78"}, {"U+13A9", "U+AB79"},
      {"U+13AA", "U+AB7A"}, {"U+13AB", "U+AB7B"}, {"U+13AC", "U+AB7C"},
      {"U+13AD", "U+AB7D"}, {"U+13AE", "U+AB7E"}, {"U+13AF", "U+AB7F"},
      {"U+13B0", "U+AB80"}, {"U+13B1", "U+AB81"}, {"U+13B2", "U+AB82"},
      {"U+13B3", "U+AB83"}, {"U+13B4", "U+AB84"}, {"U+13B5", "U+AB85"},
      {"U+13B6", "U+AB86"}, {"U+13B7", "U+AB87"}, {"U+13B8", "U+AB88"},
      {"U+13B9", "U+AB89"}, {"U+13BA", "U+AB8A"}, {"U+13BB", "U+AB8B"},
      {"U+13BC", "U+AB8C"}, {"U+13BD", "U+AB8D"}, {"U+13BE", "U+AB8E"},
      {"U+13BF", "U+AB8F"}, {"U+13C0", "U+AB90"}, {"U+13C1", "U+AB91"},
      {"U+13C2", "U+AB92"}, {"U+13C3", "U+AB93"}, {"U+13C4", "U+AB94"},
      {"U+13C5", "U+AB95"}, {"U+13C6", "U+AB96"}, {"U+13C7", "U+AB97"},
      {"U+13C8", "U+AB98"}, {"U+13C9", "U+AB99"}, {"U+13CA", "U+AB9A"},
      {"U+13CB", "U+AB9B"}, {"U+13CC", "U+AB9C"}, {"U+13CD", "U+AB9D"},
      {"U+13CE", "U+AB9E"}, {"U+13CF", "U+AB9F"}, {"U+13D0", "U+ABA0"},
      {"U+13D1", "U+ABA1"}, {"U+13D2", "U+ABA2"}, {"U+13D3", "U+ABA3"},
      {"U+13D4", "U+ABA4"}, {"U+13D5", "U+ABA5"}, {"U+13D6", "U+ABA6"},
      {"U+13D7", "U+ABA7"}, {"U+13D8", "U+ABA8"}, {"U+13D9", "U+ABA9"},
      {"U+13DA", "U+ABAA"}, {"U+13DB", "U+ABAB"}, {"U+13DC", "U+ABAC"},
      {"U+13DD", "U+ABAD"}, {"U+13DE", "U+ABAE"}, {"U+13DF", "U+ABAF"},
      {"U+13E0", "U+ABB0"}, {"U+13E1", "U+ABB1"}, {"U+13E2", "U+ABB2"},
      {"U+13E3", "U+ABB3"}, {"U+13E4", "U+ABB4"}, {"U+13E5", "U+ABB5"},
      {"U+13E6", "U+ABB6"}, {"U+13E7", "U+ABB7"}, {"U+13E8", "U+ABB8"},
      {"U+13E9", "U+ABB9"}, {"U+13EA", "U+ABBA"}, {"U+13EB", "U+ABBB"},
      {"U+13EC", "U+ABBC"}, {"U+13ED", "U+ABBD"}, {"U+13EE", "U+ABBE"},
      {"U+13EF", "U+ABBF"}, {"U+13F0", "U+13F8"}, {"U+13F1", "U+13F9"},
      {"U+13F2", "U+13FA"}, {"U+13F3", "U+13FB"}, {"U+13F4", "U+13FC"},
      {"U+13F5", "U+13FD"}, {"U+1C88", "U+A64A", "U+A64B"},
      {"U+1D79", "U+A77D"}, {"U+1D7D", "U+2C63"}, {"U+1D8E", "U+A7C6"},
      {"U+1E00", "U+1E01"}, {"U+1E02", "U+1E03"}, {"U+1E04", "U+1E05"},
      {"U+1E06", "U+1E07"}, {"U+1E08", "U+1E09"}, {"U+1E0A", "U+1E0B"},
      {"U+1E0C", "U+1E0D"}, {"U+1E0E", "U+1E0F"}, {"U+1E10", "U+1E11"},
      {"U+1E12", "U+1E13"}, {"U+1E14", "U+1E15"}, {"U+1E16", "U+1E17"},
      {"U+1E18", "U+1E19"}, {"U+1E1A", "U+1E1B"}, {"U+1E1C", "U+1E1D"},
      {"U+1E1E", "U+1E1F"}, {"U+1E20", "U+1E21"}, {"U+1E22", "U+1E23"},
      {"U+1E24", "U+1E25"}, {"U+1E26", "U+1E27"}, {"U+1E28", "U+1E29"},
      {"U+1E2A", "U+1E2B"}, {"U+1E2C", "U+1E2D"}, {"U+1E2E", "U+1E2F"},
      {"U+1E30", "U+1E31"}, {"U+1E32", "U+1E33"}, {"U+1E34", "U+1E35"},
      {"U+1E36", "U+1E37"}, {"U+1E38", "U+1E39"}, {"U+1E3A", "U+1E3B"},
      {"U+1E3C", "U+1E3D"}, {"U+1E3E", "U+1E3F"}, {"U+1E40", "U+1E41"},
      {"U+1E42", "U+1E43"}, {"U+1E44", "U+1E45"}, {"U+1E46", "U+1E47"},
      {"U+1E48", "U+1E49"}, {"U+1E4A", "U+1E4B"}, {"U+1E4C", "U+1E4D"},
      {"U+1E4E", "U+1E4F"}, {"U+1E50", "U+1E51"}, {"U+1E52", "U+1E53"},
      {"U+1E54", "U+1E55"}, {"U+1E56", "U+1E57"}, {"U+1E58", "U+1E59"},
      {"U+1E5A", "U+1E5B"}, {"U+1E5C", "U+1E5D"}, {"U+1E5E", "U+1E5F"},
      {"U+1E60", "U+1E61", "U+1E9B"}, {"U+1E62", "U+1E63"},
      {"U+1E64", "U+1E65"}, {"U+1E66", "U+1E67"}, {"U+1E68", "U+1E69"},
      {"U+1E6A", "U+1E6B"}, {"U+1E6C", "U+1E6D"}, {"U+1E6E", "U+1E6F"},
      {"U+1E70", "U+1E71"}, {"U+1E72", "U+1E73"}, {"U+1E74", "U+1E75"},
      {"U+1E76", "U+1E77"}, {"U+1E78", "U+1E79"}, {"U+1E7A", "U+1E7B"},
      {"U+1E7C", "U+1E7D"}, {"U+1E7E", "U+1E7F"}, {"U+1E80", "U+1E81"},
      {"U+1E82", "U+1E83"}, {"U+1E84", "U+1E85"}, {"U+1E86", "U+1E87"},
      {"U+1E88", "U+1E89"}, {"U+1E8A", "U+1E8B"}, {"U+1E8C", "U+1E8D"},
      {"U+1E8E", "U+1E8F"}, {"U+1E90", "U+1E91"}, {"U+1E92", "U+1E93"},
      {"U+1E94", "U+1E95"}, {"U+1EA0", "U+1EA1"}, {"U+1EA2", "U+1EA3"},
      {"U+1EA4", "U+1EA5"}, {"U+1EA6", "U+1EA7"}, {"U+1EA8", "U+1EA9"},
      {"U+1EAA", "U+1EAB"}, {"U+1EAC", "U+1EAD"}, {"U+1EAE", "U+1EAF"},
      {"U+1EB0", "U+1EB1"}, {"U+1EB2", "U+1EB3"}, {"U+1EB4", "U+1EB5"},
      {"U+1EB6", "U+1EB7"}, {"U+1EB8", "U+1EB9"}, {"U+1EBA", "U+1EBB"},
      {"U+1EBC", "U+1EBD"}, {"U+1EBE", "U+1EBF"}, {"U+1EC0", "U+1EC1"},
      {"U+1EC2", "U+1EC3"}, {"U+1EC4", "U+1EC5"}, {"U+1EC6", "U+1EC7"},
      {"U+1EC8", "U+1EC9"}, {"U+1ECA", "U+1ECB"}, {"U+1ECC", "U+1ECD"},
      {"U+1ECE", "U+1ECF"}, {"U+1ED0", "U+1ED1"}, {"U+1ED2", "U+1ED3"},
      {"U+1ED4", "U+1ED5"}, {"U+1ED6", "U+1ED7"}, {"U+1ED8", "U+1ED9"},
      {"U+1EDA", "U+1EDB"}, {"U+1EDC", "U+1EDD"}, {"U+1EDE", "U+1EDF"},
      {"U+1EE0", "U+1EE1"}, {"U+1EE2", "U+1EE3"}, {"U+1EE4", "U+1EE5"},
      {"U+1EE6", "U+1EE7"}, {"U+1EE8", "U+1EE9"}, {"U+1EEA", "U+1EEB"},
      {"U+1EEC", "U+1EED"}, {"U+1EEE", "U+1EEF"}, {"U+1EF0", "U+1EF1"},
      {"U+1EF2", "U+1EF3"}, {"U+1EF4", "U+1EF5"}, {"U+1EF6", "U+1EF7"},
      {"U+1EF8", "U+1EF9"}, {"U+1EFA", "U+1EFB"}, {"U+1EFC", "U+1EFD"},
      {"U+1EFE", "U+1EFF"}, {"U+1F00", "U+1F08"}, {"U+1F01", "U+1F09"},
      {"U+1F02", "U+1F0A"}, {"U+1F03", "U+1F0B"}, {"U+1F04", "U+1F0C"},
      {"U+1F05", "U+1F0D"}, {"U+1F06", "U+1F0E"}, {"U+1F07", "U+1F0F"},
      {"U+1F10", "U+1F18"}, {"U+1F11", "U+1F19"}, {"U+1F12", "U+1F1A"},
      {"U+1F13", "U+1F1B"}, {"U+1F14", "U+1F1C"}, {"U+1F15", "U+1F1D"},
      {"U+1F20", "U+1F28"}, {"U+1F21", "U+1F29"}, {"U+1F22", "U+1F2A"},
      {"U+1F23", "U+1F2B"}, {"U+1F24", "U+1F2C"}, {"U+1F25", "U+1F2D"},
      {"U+1F26", "U+1F2E"}, {"U+1F27", "U+1F2F"}, {"U+1F30", "U+1F38"},
      {"U+1F31", "U+1F39"}, {"U+1F32", "U+1F3A"}, {"U+1F33", "U+1F3B"},
      {"U+1F34", "U+1F3C"}, {"U+1F35", "U+1F3D"}, {"U+1F36", "U+1F3E"},
      {"U+1F37", "U+1F3F"}, {"U+1F40", "U+1F48"}, {"U+1F41", "U+1F49"},
      {"U+1F42", "U+1F4A"}, {"U+1F43", "U+1F4B"}, {"U+1F44", "U+1F4C"},
      {"U+1F45", "U+1F4D"}, {"U+1F51", "U+1F59"}, {"U+1F53", "U+1F5B"},
      {"U+1F55", "U+1F5D"}, {"U+1F57", "U+1F5F"}, {"U+1F60", "U+1F68"},
      {"U+1F61", "U+1F69"}, {"U+1F62", "U+1F6A"}, {"U+1F63", "U+1F6B"},
      {"U+1F64", "U+1F6C"}, {"U+1F65", "U+1F6D"}, {"U+1F66", "U+1F6E"},
      {"U+1F67", "U+1F6F"}, {"U+1F70", "U+1FBA"}, {"U+1F71", "U+1FBB"},
      {"U+1F72", "U+1FC8"}, {"U+1F73", "U+1FC9"}, {"U+1F74", "U+1FCA"},
      {"U+1F75", "U+1FCB"}, {"U+1F76", "U+1FDA"}, {"U+1F77", "U+1FDB"},
      {"U+1F78", "U+1FF8"}, {"U+1F79", "U+1FF9"}, {"U+1F7A", "U+1FEA"},
      {"U+1F7B", "U+1FEB"}, {"U+1F7C", "U+1FFA"}, {"U+1F7D", "U+1FFB"},
      {"U+1F80", "U+1F88"}, {"U+1F81", "U+1F89"}, {"U+1F82", "U+1F8A"},
      {"U+1F83", "U+1F8B"}, {"U+1F84", "U+1F8C"}, {"U+1F85", "U+1F8D"},
      {"U+1F86", "U+1F8E"}, {"U+1F87", "U+1F8F"}, {"U+1F90", "U+1F98"},
      {"U+1F91", "U+1F99"}, {"U+1F92", "U+1F9A"}, {"U+1F93", "U+1F9B"},
      {"U+1F94", "U+1F9C"}, {"U+1F95", "U+1F9D"}, {"U+1F96", "U+1F9E"},
      {"U+1F97", "U+1F9F"}, {"U+1FA0", "U+1FA8"}, {"U+1FA1", "U+1FA9"},
      {"U+1FA2", "U+1FAA"}, {"U+1FA3", "U+1FAB"}, {"U+1FA4", "U+1FAC"},
      {"U+1FA5", "U+1FAD"}, {"U+1FA6", "U+1FAE"}, {"U+1FA7", "U+1FAF"},
      {"U+1FB0", "U+1FB8"}, {"U+1FB1", "U+1FB9"}, {"U+1FB3", "U+1FBC"},
      {"U+1FC3", "U+1FCC"}, {"U+1FD0", "U+1FD8"}, {"U+1FD1", "U+1FD9"},
      {"U+1FE0", "U+1FE8"}, {"U+1FE1", "U+1FE9"}, {"U+1FE5", "U+1FEC"},
      {"U+1FF3", "U+1FFC"}, {"U+2132", "U+214E"}, {"U+2160", "U+2170"},
      {"U+2161", "U+2171"}, {"U+2162", "U+2172"}, {"U+2163", "U+2173"},
      {"U+2164", "U+2174"}, {"U+2165", "U+2175"}, {"U+2166", "U+2176"},
      {"U+2167", "U+2177"}, {"U+2168", "U+2178"}, {"U+2169", "U+2179"},
      {"U+216A", "U+217A"}, {"U+216B", "U+217B"}, {"U+216C", "U+217C"},
      {"U+216D", "U+217D"}, {"U+216E", "U+217E"}, {"U+216F", "U+217F"},
      {"U+2183", "U+2184"}, {"U+24B6", "U+24D0"}, {"U+24B7", "U+24D1"},
      {"U+24B8", "U+24D2"}, {"U+24B9", "U+24D3"}, {"U+24BA", "U+24D4"},
      {"U+24BB", "U+24D5"}, {"U+24BC", "U+24D6"}, {"U+24BD", "U+24D7"},
      {"U+24BE", "U+24D8"}, {"U+24BF", "U+24D9"}, {"U+24C0", "U+24DA"},
      {"U+24C1", "U+24DB"}, {"U+24C2", "U+24DC"}, {"U+24C3", "U+24DD"},
      {"U+24C4", "U+24DE"}, {"U+24C5", "U+24DF"}, {"U+24C6", "U+24E0"},
      {"U+24C7", "U+24E1"}, {"U+24C8", "U+24E2"}, {"U+24C9", "U+24E3"},
      {"U+24CA", "U+24E4"}, {"U+24CB", "U+24E5"}, {"U+24CC", "U+24E6"},
      {"U+24CD", "U+24E7"}, {"U+24CE", "U+24E8"}, {"U+24CF", "U+24E9"},
      {"U+2C00", "U+2C30"}, {"U+2C01", "U+2C31"}, {"U+2C02", "U+2C32"},
      {"U+2C03", "U+2C33"}, {"U+2C04", "U+2C34"}, {"U+2C05", "U+2C35"},
      {"U+2C06", "U+2C36"}, {"U+2C07", "U+2C37"}, {"U+2C08", "U+2C38"},
      {"U+2C09", "U+2C39"}, {"U+2C0A", "U+2C3A"}, {"U+2C0B", "U+2C3B"},
      {"U+2C0C", "U+2C3C"}, {"U+2C0D", "U+2C3D"}, {"U+2C0E", "U+2C3E"},
      {"U+2C0F", "U+2C3F"}, {"U+2C10", "U+2C40"}, {"U+2C11", "U+2C41"},
      {"U+2C12", "U+2C42"}, {"U+2C13", "U+2C43"}, {"U+2C14", "U+2C44"},
      {"U+2C15", "U+2C45"}, {"U+2C16", "U+2C46"}, {"U+2C17", "U+2C47"},
      {"U+2C18", "U+2C48"}, {"U+2C19", "U+2C49"}, {"U+2C1A", "U+2C4A"},
      {"U+2C1B", "U+2C4B"}, {"U+2C1C", "U+2C4C"}, {"U+2C1D", "U+2C4D"},
      {"U+2C1E", "U+2C4E"}, {"U+2C1F", "U+2C4F"}, {"U+2C20", "U+2C50"},
      {"U+2C21", "U+2C51"}, {"U+2C22", "U+2C52"}, {"U+2C23", "U+2C53"},
      {"U+2C24", "U+2C54"}, {"U+2C25", "U+2C55"}, {"U+2C26", "U+2C56"},
      {"U+2C27", "U+2C57"}, {"U+2C28", "U+2C58"}, {"U+2C29", "U+2C59"},
      {"U+2C2A", "U+2C5A"}, {"U+2C2B", "U+2C5B"}, {"U+2C2C", "U+2C5C"},
      {"U+2C2D", "U+2C5D"}, {"U+2C2E", "U+2C5E"}, {"U+2C2F", "U+2C5F"},
      {"U+2C60", "U+2C61"}, {"U+2C67", "U+2C68"}, {"U+2C69", "U+2C6A"},
      {"U+2C6B", "U+2C6C"}, {"U+2C72", "U+2C73"}, {"U+2C75", "U+2C76"},
      {"U+2C80", "U+2C81"}, {"U+2C82", "U+2C83"}, {"U+2C84", "U+2C85"},
      {"U+2C86", "U+2C87"}, {"U+2C88", "U+2C89"}, {"U+2C8A", "U+2C8B"},
      {"U+2C8C", "U+2C8D"}, {"U+2C8E", "U+2C8F"}, {"U+2C90", "U+2C91"},
      {"U+2C92", "U+2C93"}, {"U+2C94", "U+2C95"}, {"U+2C96", "U+2C97"},
      {"U+2C98", "U+2C99"}, {"U+2C9A", "U+2C9B"}, {"U+2C9C", "U+2C9D"},
      {"U+2C9E", "U+2C9F"}, {"U+2CA0", "U+2CA1"}, {"U+2CA2", "U+2CA3"},
      {"U+2CA4", "U+2CA5"}, {"U+2CA6", "U+2CA7"}, {"U+2CA8", "U+2CA9"},
      {"U+2CAA", "U+2CAB"}, {"U+2CAC", "U+2CAD"}, {"U+2CAE", "U+2CAF"},
      {"U+2CB0", "U+2CB1"}, {"U+2CB2", "U+2CB3"}, {"U+2CB4", "U+2CB5"},
      {"U+2CB6", "U+2CB7"}, {"U+2CB8", "U+2CB9"}, {"U+2CBA", "U+2CBB"},
      {"U+2CBC", "U+2CBD"}, {"U+2CBE", "U+2CBF"}, {"U+2CC0", "U+2CC1"},
      {"U+2CC2", "U+2CC3"}, {"U+2CC4", "U+2CC5"}, {"U+2CC6", "U+2CC7"},
      {"U+2CC8", "U+2CC9"}, {"U+2CCA", "U+2CCB"}, {"U+2CCC", "U+2CCD"},
      {"U+2CCE", "U+2CCF"}, {"U+2CD0", "U+2CD1"}, {"U+2CD2", "U+2CD3"},
      {"U+2CD4", "U+2CD5"}, {"U+2CD6", "U+2CD7"}, {"U+2CD8", "U+2CD9"},
      {"U+2CDA", "U+2CDB"}, {"U+2CDC", "U+2CDD"}, {"U+2CDE", "U+2CDF"},
      {"U+2CE0", "U+2CE1"}, {"U+2CE2", "U+2CE3"}, {"U+2CEB", "U+2CEC"},
      {"U+2CED", "U+2CEE"}, {"U+2CF2", "U+2CF3"}, {"U+A640", "U+A641"},
      {"U+A642", "U+A643"}, {"U+A644", "U+A645"}, {"U+A646", "U+A647"},
      {"U+A648", "U+A649"}, {"U+A64C", "U+A64D"}, {"U+A64E", "U+A64F"},
      {"U+A650", "U+A651"}, {"U+A652", "U+A653"}, {"U+A654", "U+A655"},
      {"U+A656", "U+A657"}, {"U+A658", "U+A659"}, {"U+A65A", "U+A65B"},
      {"U+A65C", "U+A65D"}, {"U+A65E", "U+A65F"}, {"U+A660", "U+A661"},
      {"U+A662", "U+A663"}, {"U+A664", "U+A665"}, {"U+A666", "U+A667"},
      {"U+A668", "U+A669"}, {"U+A66A", "U+A66B"}, {"U+A66C", "U+A66D"},
      {"U+A680", "U+A681"}, {"U+A682", "U+A683"}, {"U+A684", "U+A685"},
      {"U+A686", "U+A687"}, {"U+A688", "U+A689"}, {"U+A68A", "U+A68B"},
      {"U+A68C", "U+A68D"}, {"U+A68E", "U+A68F"}, {"U+A690", "U+A691"},
      {"U+A692", "U+A693"}, {"U+A694", "U+A695"}, {"U+A696", "U+A697"},
      {"U+A698", "U+A699"}, {"U+A69A", "U+A69B"}, {"U+A722", "U+A723"},
      {"U+A724", "U+A725"}, {"U+A726", "U+A727"}, {"U+A728", "U+A729"},
      {"U+A72A", "U+A72B"}, {"U+A72C", "U+A72D"}, {"U+A72E", "U+A72F"},
      {"U+A732", "U+A733"}, {"U+A734", "U+A735"}, {"U+A736", "U+A737"},
      {"U+A738", "U+A739"}, {"U+A73A", "U+A73B"}, {"U+A73C", "U+A73D"},
      {"U+A73E", "U+A73F"}, {"U+A740", "U+A741"}, {"U+A742", "U+A743"},
      {"U+A744", "U+A745"}, {"U+A746", "U+A747"}, {"U+A748", "U+A749"},
      {"U+A74A", "U+A74B"}, {"U+A74C", "U+A74D"}, {"U+A74E", "U+A74F"},
      {"U+A750", "U+A751"}, {"U+A752", "U+A753"}, {"U+A754", "U+A755"},
      {"U+A756", "U+A757"}, {"U+A758", "U+A759"}, {"U+A75A", "U+A75B"},
      {"U+A75C", "U+A75D"}, {"U+A75E", "U+A75F"}, {"U+A760", "U+A761"},
      {"U+A762", "U+A763"}, {"U+A764", "U+A765"}, {"U+A766", "U+A767"},
      {"U+A768", "U+A769"}, {"U+A76A", "U+A76B"}, {"U+A76C", "U+A76D"},
      {"U+A76E", "U+A76F"}, {"U+A779", "U+A77A"}, {"U+A77B", "U+A77C"},
      {"U+A77E", "U+A77F"}, {"U+A780", "U+A781"}, {"U+A782", "U+A783"},
      {"U+A784", "U+A785"}, {"U+A786", "U+A787"}, {"U+A78B", "U+A78C"},
      {"U+A790", "U+A791"}, {"U+A792", "U+A793"}, {"U+A794", "U+A7C4"},
      {"U+A796", "U+A797"}, {"U+A798", "U+A799"}, {"U+A79A", "U+A79B"},
      {"U+A79C", "U+A79D"}, {"U+A79E", "U+A79F"}, {"U+A7A0", "U+A7A1"},
      {"U+A7A2", "U+A7A3"}, {"U+A7A4", "U+A7A5"}, {"U+A7A6", "U+A7A7"},
      {"U+A7A8", "U+A7A9"}, {"U+A7B3", "U+AB53"}, {"U+A7B4", "U+A7B5"},
      {"U+A7B6", "U+A7B7"}, {"U+A7B8", "U+A7B9"}, {"U+A7BA", "U+A7BB"},
      {"U+A7BC", "U+A7BD"}, {"U+A7BE", "U+A7BF"}, {"U+A7C0", "U+A7C1"},
      {"U+A7C2", "U+A7C3"}, {"U+A7C7", "U+A7C8"}, {"U+A7C9", "U+A7CA"},
      {"U+A7D0", "U+A7D1"}, {"U+A7D6", "U+A7D7"}, {"U+A7D8", "U+A7D9"},
      {"U+A7F5", "U+A7F6"}, {"U+FB05", "U+FB06"}, {"U+FF21", "U+FF41"},
      {"U+FF22", "U+FF42"}, {"U+FF23", "U+FF43"}, {"U+FF24", "U+FF44"},
      {"U+FF25", "U+FF45"}, {"U+FF26", "U+FF46"}, {"U+FF27", "U+FF47"},
      {"U+FF28", "U+FF48"}, {"U+FF29", "U+FF49"}, {"U+FF2A", "U+FF4A"},
      {"U+FF2B", "U+FF4B"}, {"U+FF2C", "U+FF4C"}, {"U+FF2D", "U+FF4D"},
      {"U+FF2E", "U+FF4E"}, {"U+FF2F", "U+FF4F"}, {"U+FF30", "U+FF50"},
      {"U+FF31", "U+FF51"}, {"U+FF32", "U+FF52"}, {"U+FF33", "U+FF53"},
      {"U+FF34", "U+FF54"}, {"U+FF35", "U+FF55"}, {"U+FF36", "U+FF56"},
      {"U+FF37", "U+FF57"}, {"U+FF38", "U+FF58"}, {"U+FF39", "U+FF59"},
      {"U+FF3A", "U+FF5A"}, {"U+10400", "U+10428"}, {"U+10401", "U+10429"},
      {"U+10402", "U+1042A"}, {"U+10403", "U+1042B"}, {"U+10404", "U+1042C"},
      {"U+10405", "U+1042D"}, {"U+10406", "U+1042E"}, {"U+10407", "U+1042F"},
      {"U+10408", "U+10430"}, {"U+10409", "U+10431"}, {"U+1040A", "U+10432"},
      {"U+1040B", "U+10433"}, {"U+1040C", "U+10434"}, {"U+1040D", "U+10435"},
      {"U+1040E", "U+10436"}, {"U+1040F", "U+10437"}, {"U+10410", "U+10438"},
      {"U+10411", "U+10439"}, {"U+10412", "U+1043A"}, {"U+10413", "U+1043B"},
      {"U+10414", "U+1043C"}, {"U+10415", "U+1043D"}, {"U+10416", "U+1043E"},
      {"U+10417", "U+1043F"}, {"U+10418", "U+10440"}, {"U+10419", "U+10441"},
      {"U+1041A", "U+10442"}, {"U+1041B", "U+10443"}, {"U+1041C", "U+10444"},
      {"U+1041D", "U+10445"}, {"U+1041E", "U+10446"}, {"U+1041F", "U+10447"},
      {"U+10420", "U+10448"}, {"U+10421", "U+10449"}, {"U+10422", "U+1044A"},
      {"U+10423", "U+1044B"}, {"U+10424", "U+1044C"}, {"U+10425", "U+1044D"},
      {"U+10426", "U+1044E"}, {"U+10427", "U+1044F"}, {"U+104B0", "U+104D8"},
      {"U+104B1", "U+104D9"}, {"U+104B2", "U+104DA"}, {"U+104B3", "U+104DB"},
      {"U+104B4", "U+104DC"}, {"U+104B5", "U+104DD"}, {"U+104B6", "U+104DE"},
      {"U+104B7", "U+104DF"}, {"U+104B8", "U+104E0"}, {"U+104B9", "U+104E1"},
      {"U+104BA", "U+104E2"}, {"U+104BB", "U+104E3"}, {"U+104BC", "U+104E4"},
      {"U+104BD", "U+104E5"}, {"U+104BE", "U+104E6"}, {"U+104BF", "U+104E7"},
      {"U+104C0", "U+104E8"}, {"U+104C1", "U+104E9"}, {"U+104C2", "U+104EA"},
      {"U+104C3", "U+104EB"}, {"U+104C4", "U+104EC"}, {"U+104C5", "U+104ED"},
      {"U+104C6", "U+104EE"}, {"U+104C7", "U+104EF"}, {"U+104C8", "U+104F0"},
      {"U+104C9", "U+104F1"}, {"U+104CA", "U+104F2"}, {"U+104CB", "U+104F3"},
      {"U+104CC", "U+104F4"}, {"U+104CD", "U+104F5"}, {"U+104CE", "U+104F6"},
      {"U+104CF", "U+104F7"}, {"U+104D0", "U+104F8"}, {"U+104D1", "U+104F9"},
      {"U+104D2", "U+104FA"}, {"U+104D3", "U+104FB"}, {"U+10570", "U+10597"},
      {"U+10571", "U+10598"}, {"U+10572", "U+10599"}, {"U+10573", "U+1059A"},
      {"U+10574", "U+1059B"}, {"U+10575", "U+1059C"}, {"U+10576", "U+1059D"},
      {"U+10577", "U+1059E"}, {"U+10578", "U+1059F"}, {"U+10579", "U+105A0"},
      {"U+1057A", "U+105A1"}, {"U+1057C", "U+105A3"}, {"U+1057D", "U+105A4"},
      {"U+1057E", "U+105A5"}, {"U+1057F", "U+105A6"}, {"U+10580", "U+105A7"},
      {"U+10581", "U+105A8"}, {"U+10582", "U+105A9"}, {"U+10583", "U+105AA"},
      {"U+10584", "U+105AB"}, {"U+10585", "U+105AC"}, {"U+10586", "U+105AD"},
      {"U+10587", "U+105AE"}, {"U+10588", "U+105AF"}, {"U+10589", "U+105B0"},
      {"U+1058A", "U+105B1"}, {"U+1058C", "U+105B3"}, {"U+1058D", "U+105B4"},
      {"U+1058E", "U+105B5"}, {"U+1058F", "U+105B6"}, {"U+10590", "U+105B7"},
      {"U+10591", "U+105B8"}, {"U+10592", "U+105B9"}, {"U+10594", "U+105BB"},
      {"U+10595", "U+105BC"}, {"U+10C80", "U+10CC0"}, {"U+10C81", "U+10CC1"},
      {"U+10C82", "U+10CC2"}, {"U+10C83", "U+10CC3"}, {"U+10C84", "U+10CC4"},
      {"U+10C85", "U+10CC5"}, {"U+10C86", "U+10CC6"}, {"U+10C87", "U+10CC7"},
      {"U+10C88", "U+10CC8"}, {"U+10C89", "U+10CC9"}, {"U+10C8A", "U+10CCA"},
      {"U+10C8B", "U+10CCB"}, {"U+10C8C", "U+10CCC"}, {"U+10C8D", "U+10CCD"},
      {"U+10C8E", "U+10CCE"}, {"U+10C8F", "U+10CCF"}, {"U+10C90", "U+10CD0"},
      {"U+10C91", "U+10CD1"}, {"U+10C92", "U+10CD2"}, {"U+10C93", "U+10CD3"},
      {"U+10C94", "U+10CD4"}, {"U+10C95", "U+10CD5"}, {"U+10C96", "U+10CD6"},
      {"U+10C97", "U+10CD7"}, {"U+10C98", "U+10CD8"}, {"U+10C99", "U+10CD9"},
      {"U+10C9A", "U+10CDA"}, {"U+10C9B", "U+10CDB"}, {"U+10C9C", "U+10CDC"},
      {"U+10C9D", "U+10CDD"}, {"U+10C9E", "U+10CDE"}, {"U+10C9F", "U+10CDF"},
      {"U+10CA0", "U+10CE0"}, {"U+10CA1", "U+10CE1"}, {"U+10CA2", "U+10CE2"},
      {"U+10CA3", "U+10CE3"}, {"U+10CA4", "U+10CE4"}, {"U+10CA5", "U+10CE5"},
      {"U+10CA6", "U+10CE6"}, {"U+10CA7", "U+10CE7"}, {"U+10CA8", "U+10CE8"},
      {"U+10CA9", "U+10CE9"}, {"U+10CAA", "U+10CEA"}, {"U+10CAB", "U+10CEB"},
      {"U+10CAC", "U+10CEC"}, {"U+10CAD", "U+10CED"}, {"U+10CAE", "U+10CEE"},
      {"U+10CAF", "U+10CEF"}, {"U+10CB0", "U+10CF0"}, {"U+10CB1", "U+10CF1"},
      {"U+10CB2", "U+10CF2"}, {"U+118A0", "U+118C0"}, {"U+118A1", "U+118C1"},
      {"U+118A2", "U+118C2"}, {"U+118A3", "U+118C3"}, {"U+118A4", "U+118C4"},
      {"U+118A5", "U+118C5"}, {"U+118A6", "U+118C6"}, {"U+118A7", "U+118C7"},
      {"U+118A8", "U+118C8"}, {"U+118A9", "U+118C9"}, {"U+118AA", "U+118CA"},
      {"U+118AB", "U+118CB"}, {"U+118AC", "U+118CC"}, {"U+118AD", "U+118CD"},
      {"U+118AE", "U+118CE"}, {"U+118AF", "U+118CF"}, {"U+118B0", "U+118D0"},
      {"U+118B1", "U+118D1"}, {"U+118B2", "U+118D2"}, {"U+118B3", "U+118D3"},
      {"U+118B4", "U+118D4"}, {"U+118B5", "U+118D5"}, {"U+118B6", "U+118D6"},
      {"U+118B7", "U+118D7"}, {"U+118B8", "U+118D8"}, {"U+118B9", "U+118D9"},
      {"U+118BA", "U+118DA"}, {"U+118BB", "U+118DB"}, {"U+118BC", "U+118DC"},
      {"U+118BD", "U+118DD"}, {"U+118BE", "U+118DE"}, {"U+118BF", "U+118DF"},
      {"U+16E40", "U+16E60"}, {"U+16E41", "U+16E61"}, {"U+16E42", "U+16E62"},
      {"U+16E43", "U+16E63"}, {"U+16E44", "U+16E64"}, {"U+16E45", "U+16E65"},
      {"U+16E46", "U+16E66"}, {"U+16E47", "U+16E67"}, {"U+16E48", "U+16E68"},
      {"U+16E49", "U+16E69"}, {"U+16E4A", "U+16E6A"}, {"U+16E4B", "U+16E6B"},
      {"U+16E4C", "U+16E6C"}, {"U+16E4D", "U+16E6D"}, {"U+16E4E", "U+16E6E"},
      {"U+16E4F", "U+16E6F"}, {"U+16E50", "U+16E70"}, {"U+16E51", "U+16E71"},
      {"U+16E52", "U+16E72"}, {"U+16E53", "U+16E73"}, {"U+16E54", "U+16E74"},
      {"U+16E55", "U+16E75"}, {"U+16E56", "U+16E76"}, {"U+16E57", "U+16E77"},
      {"U+16E58", "U+16E78"}, {"U+16E59", "U+16E79"}, {"U+16E5A", "U+16E7A"},
      {"U+16E5B", "U+16E7B"}, {"U+16E5C", "U+16E7C"}, {"U+16E5D", "U+16E7D"},
      {"U+16E5E", "U+16E7E"}, {"U+16E5F", "U+16E7F"}, {"U+1E900", "U+1E922"},
      {"U+1E901", "U+1E923"}, {"U+1E902", "U+1E924"}, {"U+1E903", "U+1E925"},
      {"U+1E904", "U+1E926"}, {"U+1E905", "U+1E927"}, {"U+1E906", "U+1E928"},
      {"U+1E907", "U+1E929"}, {"U+1E908", "U+1E92A"}, {"U+1E909", "U+1E92B"},
      {"U+1E90A", "U+1E92C"}, {"U+1E90B", "U+1E92D"}, {"U+1E90C", "U+1E92E"},
      {"U+1E90D", "U+1E92F"}, {"U+1E90E", "U+1E930"}, {"U+1E90F", "U+1E931"},
      {"U+1E910", "U+1E932"}, {"U+1E911", "U+1E933"}, {"U+1E912", "U+1E934"},
      {"U+1E913", "U+1E935"}, {"U+1E914", "U+1E936"}, {"U+1E915", "U+1E937"},
      {"U+1E916", "U+1E938"}, {"U+1E917", "U+1E939"}, {"U+1E918", "U+1E93A"},
      {"U+1E919", "U+1E93B"}, {"U+1E91A", "U+1E93C"}, {"U+1E91B", "U+1E93D"},
      {"U+1E91C", "U+1E93E"}, {"U+1E91D", "U+1E93F"}, {"U+1E91E", "U+1E940"},
      {"U+1E91F", "U+1E941"}, {"U+1E920", "U+1E942"}, {"U+1E921", "U+1E943"}}

Cased == UNION CaseClasses

\* character b matches the character a of a pattern that ignores the case
SameCase(a, b) ==
    \/ a = b
    \/ /\ a \in Cased
       /\ b \in Cased
       /\ \E class \in CaseClasses : a \in class /\ b \in class

\* int(s) of decimal digits s
RECURSIVE Number(_)
Number(s) ==
    IF Len(s) = 0 THEN 0
    ELSE 10 * Number(SubSeq(s, 1, Len(s) - 1)) + DigitValue(s[Len(s)])

\* int(s) of a matched text: a space before the digits does not count
int(s) == IF s[1] = " " THEN Number(Tail(s)) ELSE Number(s)

\* s[m:n] of Python, with the indexes from 1 and the end included
Slice(s, m, n) ==
    IF m > Len(s) THEN <<>> ELSE SubSeq(s, m, IF n > Len(s) THEN Len(s) ELSE n)

\* s + "0" * (6 - len(s))
RECURSIVE Padded(_)
Padded(s) == IF Len(s) >= 6 THEN s ELSE Padded(Append(s, "0"))

\* str.lower() of a text that matched a name of the locale; such a text is
\* of ASCII letters and of the characters that match an ASCII letter
LowerChar(c) ==
    CASE c = "A" -> <<"a">> [] c = "B" -> <<"b">> [] c = "C" -> <<"c">>
      [] c = "D" -> <<"d">> [] c = "E" -> <<"e">> [] c = "F" -> <<"f">>
      [] c = "G" -> <<"g">> [] c = "H" -> <<"h">> [] c = "I" -> <<"i">>
      [] c = "J" -> <<"j">> [] c = "K" -> <<"k">> [] c = "L" -> <<"l">>
      [] c = "M" -> <<"m">> [] c = "N" -> <<"n">> [] c = "O" -> <<"o">>
      [] c = "P" -> <<"p">> [] c = "Q" -> <<"q">> [] c = "R" -> <<"r">>
      [] c = "S" -> <<"s">> [] c = "T" -> <<"t">> [] c = "U" -> <<"u">>
      [] c = "V" -> <<"v">> [] c = "W" -> <<"w">> [] c = "X" -> <<"x">>
      [] c = "Y" -> <<"y">> [] c = "Z" -> <<"z">>
      [] c = "U+212A" -> <<"k">>
      [] c = "U+0130" -> <<"i", "U+0307">>
      [] OTHER -> <<c>>

RECURSIVE lower(_)
lower(s) == IF s = <<>> THEN <<>> ELSE LowerChar(Head(s)) \o lower(Tail(s))

\* list.index: the index from 0 of text in names, or -1 for the ValueError
\* of a text that is not in the list
Index(names, text) ==
    IF \E i \in 1..Len(names) : names[i] = text
    THEN (CHOOSE i \in 1..Len(names) : names[i] = text) - 1
    ELSE -1

(* the calendar of datetime.date *)

IsLeap(year) == (year % 4 = 0 /\ year % 100 # 0) \/ year % 400 = 0

DaysInMonth(year, month) ==
    IF month = 2 THEN (IF IsLeap(year) THEN 29 ELSE 28)
    ELSE IF month \in {4, 6, 9, 11} THEN 30 ELSE 31

\* the number of days before 1 January of the year
DaysBeforeYear(year) ==
    (year - 1) * 365 + (year - 1) \div 4 - (year - 1) \div 100
        + (year - 1) \div 400

\* the number of days of the year before the first of the month
DaysBeforeMonth(year, month) ==
    <<0, 31, 59, 90, 120, 151, 181, 212, 243, 273, 304, 334>>[month]
        + (IF month > 2 /\ IsLeap(year) THEN 1 ELSE 0)

\* datetime.date(year, month, day) is a date; otherwise it is a ValueError
IsDate(year, month, day) ==
    /\ year \in 1..9999
    /\ month \in 1..12
    /\ day \in 1..DaysInMonth(year, month)

\* date(year, month, day).toordinal()
ToOrdinal(year, month, day) ==
    DaysBeforeYear(year) + DaysBeforeMonth(year, month) + day

\* the year of the day of ordinal n
YearOfOrdinal(n) ==
    CHOOSE year \in ((n - 1) \div 366 + 1)..((n - 1) \div 366 + 30) :
        DaysBeforeYear(year) < n /\ n <= DaysBeforeYear(year + 1)

\* the month of the n-th day of the year
MonthOfDay(year, n) ==
    CHOOSE month \in 1..12 :
        /\ DaysBeforeMonth(year, month) < n
        /\ n <= DaysBeforeMonth(year, month) + DaysInMonth(year, month)

\* the date of the n-th day of the year
DateOfDay(year, n) ==
    [year |-> year, month |-> MonthOfDay(year, n),
     day |-> n - DaysBeforeMonth(year, MonthOfDay(year, n))]

\* date.fromordinal(n), for n from 1 to date.max.toordinal()
FromOrdinal(n) == DateOfDay(YearOfOrdinal(n), n - DaysBeforeYear(YearOfOrdinal(n)))

\* date(year, month, day).weekday(): 0 is Monday
Weekday(year, month, day) == (ToOrdinal(year, month, day) + 6) % 7

(* LocaleTime *)

\* the names and formats of the locale: the weekdays, the months after the
\* empty name at index 0, am and pm, the names of the time zone (there is no
\* daylight saving), and the formats of %c, %x and %X, which are
\* "%a %b %d %H:%M:%S %Y", "%m/%d/%y" and "%H:%M:%S"
LocaleTime ==
    [a_weekday |->
        << <<"m", "o", "n">>, <<"t", "u", "e">>, <<"w", "e", "d">>,
           <<"t", "h", "u">>, <<"f", "r", "i">>, <<"s", "a", "t">>,
           <<"s", "u", "n">> >>,
     f_weekday |->
        << <<"m", "o", "n", "d", "a", "y">>,
           <<"t", "u", "e", "s", "d", "a", "y">>,
           <<"w", "e", "d", "n", "e", "s", "d", "a", "y">>,
           <<"t", "h", "u", "r", "s", "d", "a", "y">>,
           <<"f", "r", "i", "d", "a", "y">>,
           <<"s", "a", "t", "u", "r", "d", "a", "y">>,
           <<"s", "u", "n", "d", "a", "y">> >>,
     a_month |->
        << <<>>,
           <<"j", "a", "n">>, <<"f", "e", "b">>, <<"m", "a", "r">>,
           <<"a", "p", "r">>, <<"m", "a", "y">>, <<"j", "u", "n">>,
           <<"j", "u", "l">>, <<"a", "u", "g">>, <<"s", "e", "p">>,
           <<"o", "c", "t">>, <<"n", "o", "v">>, <<"d", "e", "c">> >>,
     f_month |->
        << <<>>,
           <<"j", "a", "n", "u", "a", "r", "y">>,
           <<"f", "e", "b", "r", "u", "a", "r", "y">>,
           <<"m", "a", "r", "c", "h">>,
           <<"a", "p", "r", "i", "l">>,
           <<"m", "a", "y">>,
           <<"j", "u", "n", "e">>,
           <<"j", "u", "l", "y">>,
           <<"a", "u", "g", "u", "s", "t">>,
           <<"s", "e", "p", "t", "e", "m", "b", "e", "r">>,
           <<"o", "c", "t", "o", "b", "e", "r">>,
           <<"n", "o", "v", "e", "m", "b", "e", "r">>,
           <<"d", "e", "c", "e", "m", "b", "e", "r">> >>,
     am_pm |-> << <<"a", "m">>, <<"p", "m">> >>,
     timezone |-> << <<"u", "t", "c">>, <<"g", "m", "t">> >>,
     LC_date_time |->
        <<"%", "a", " ", "%", "b", " ", "%", "d", " ", "%", "H", ":", "%",
          "M", ":", "%", "S", " ", "%", "Y">>,
     LC_date |-> <<"%", "m", "/", "%", "d", "/", "%", "y">>,
     LC_time |-> <<"%", "H", ":", "%", "M", ":", "%", "S">>]

(* the patterns of TimeRE, as trees *)

\* one character of the set
In(set) == [op |-> "in", set |-> set]
\* the character c, in either case
Lit(c) == [op |-> "literal", c |-> c]
\* the character c in this case only
Exact(c) == [op |-> "exact", c |-> c]
\* the patterns one after another
Cat(of) == [op |-> "cat", of |-> of]
\* the first of the patterns that leads to a match
Alt(of) == [op |-> "alt", of |-> of]
\* the pattern from min to max times, as many times as leads to a match
Rep(of, min, max) == [op |-> "rep", of |-> of, min |-> min, max |-> max]
\* the pattern, whose text is kept under the name
Group(name, of) == [op |-> "group", name |-> name, of |-> of]

\* \d
D == In(DecimalDigits)
\* [lo-hi]
R(lo, hi) == In({c \in Digits : DigitValue(c) \in lo..hi})
\* the characters of a text, each in either case
Word(text) == Cat([i \in 1..Len(text) |-> Lit(text[i])])

\* sorted(to_convert, key=len, reverse=True) from length n down: the longer
\* names first, names of one length in the order they have
RECURSIVE SortedByLen(_, _)
SortedByLen(names, n) ==
    IF n = 0 THEN <<>>
    ELSE [i \in 1..Cardinality({k \in 1..Len(names) : Len(names[k]) = n}) |->
             names[CHOOSE k \in 1..Len(names) :
                      /\ Len(names[k]) = n
                      /\ Cardinality({j \in 1..k : Len(names[j]) = n}) = i]]
         \o SortedByLen(names, n - 1)

\* TimeRE.__seqToRE: the names as alternatives, the longest first
seqToRE(to_convert, directive) ==
    Group(directive,
          Alt([i \in 1..Len(SortedByLen(to_convert, 9)) |->
                  Word(SortedByLen(to_convert, 9)[i])]))

\* the directives of TimeRE
Directives ==
    {"d", "f", "H", "I", "G", "j", "m", "M", "S", "U", "w", "u", "V", "y",
     "Y", "z", "A", "a", "B", "b", "p", "Z", "%", "W", "c", "x", "X"}

RECURSIVE TimeRE(_)
RECURSIVE PatternFrom(_, _, _)

\* the end of the run of whitespace that starts at format[i]
RECURSIVE RunEnd(_, _)
RunEnd(format, i) ==
    IF i < Len(format) /\ format[i + 1] \in Whitespace
    THEN RunEnd(format, i + 1) ELSE i

\* TimeRE.pattern from format[i] on, after the items found so far: a run of
\* whitespace is \s+, "%" and a directive is the pattern of the directive,
\* another character is itself; a "%" at the end (IndexError) and a "%"
\* before a character that is no directive (KeyError) are a ValueError of
\* strptime
PatternFrom(format, i, items) ==
    IF i > Len(format) THEN [raised |-> "none", value |-> Cat(items)]
    ELSE IF format[i] \in Whitespace
    THEN PatternFrom(format, RunEnd(format, i) + 1,
                     Append(items, Rep(In(Whitespace), 1, -1)))
    ELSE IF format[i] # "%"
    THEN PatternFrom(format, i + 1, Append(items, Lit(format[i])))
    ELSE IF i = Len(format) THEN [raised |-> "ValueError", value |-> <<>>]
    ELSE IF format[i + 1] \notin Directives
    THEN [raised |-> "ValueError", value |-> <<>>]
    ELSE PatternFrom(format, i + 2, Append(items, TimeRE(format[i + 1])))

\* TimeRE.pattern(format)
pattern(format) == PatternFrom(format, 1, <<>>)

\* TimeRE[directive]
TimeRE(directive) ==
    CASE directive = "d" ->
            \* 3[0-1]|[1-2]\d|0[1-9]|[1-9]| [1-9]
            Group("d", Alt(<<Cat(<<Lit("3"), R(0, 1)>>),
                             Cat(<<R(1, 2), D>>),
                             Cat(<<Lit("0"), R(1, 9)>>),
                             R(1, 9),
                             Cat(<<Lit(" "), R(1, 9)>>)>>))
      [] directive = "f" ->
            \* [0-9]{1,6}
            Group("f", Rep(R(0, 9), 1, 6))
      [] directive = "H" ->
            \* 2[0-3]|[0-1]\d|\d
            Group("H", Alt(<<Cat(<<Lit("2"), R(0, 3)>>),
                             Cat(<<R(0, 1), D>>),
                             D>>))
      [] directive = "I" ->
            \* 1[0-2]|0[1-9]|[1-9]
            Group("I", Alt(<<Cat(<<Lit("1"), R(0, 2)>>),
                             Cat(<<Lit("0"), R(1, 9)>>),
                             R(1, 9)>>))
      [] directive = "G" ->
            \* \d\d\d\d
            Group("G", Cat(<<D, D, D, D>>))
      [] directive = "j" ->
            \* 36[0-6]|3[0-5]\d|[1-2]\d\d|0[1-9]\d|00[1-9]|[1-9]\d|0[1-9]|[1-9]
            Group("j", Alt(<<Cat(<<Lit("3"), Lit("6"), R(0, 6)>>),
                             Cat(<<Lit("3"), R(0, 5), D>>),
                             Cat(<<R(1, 2), D, D>>),
                             Cat(<<Lit("0"), R(1, 9), D>>),
                             Cat(<<Lit("0"), Lit("0"), R(1, 9)>>),
                             Cat(<<R(1, 9), D>>),
                             Cat(<<Lit("0"), R(1, 9)>>),
                             R(1, 9)>>))
      [] directive = "m" ->
            \* 1[0-2]|0[1-9]|[1-9]
            Group("m", Alt(<<Cat(<<Lit("1"), R(0, 2)>>),
                             Cat(<<Lit("0"), R(1, 9)>>),
                             R(1, 9)>>))
      [] directive = "M" ->
            \* [0-5]\d|\d
            Group("M", Alt(<<Cat(<<R(0, 5), D>>), D>>))
      [] directive = "S" ->
            \* 6[0-1]|[0-5]\d|\d
            Group("S", Alt(<<Cat(<<Lit("6"), R(0, 1)>>),
                             Cat(<<R(0, 5), D>>),
                             D>>))
      [] directive \in {"U", "W"} ->
            \* 5[0-3]|[0-4]\d|\d
            Group(directive, Alt(<<Cat(<<Lit("5"), R(0, 3)>>),
                                   Cat(<<R(0, 4), D>>),
                                   D>>))
      [] directive = "w" ->
            \* [0-6]
            Group("w", R(0, 6))
      [] directive = "u" ->
            \* [1-7]
            Group("u", R(1, 7))
      [] directive = "V" ->
            \* 5[0-3]|0[1-9]|[1-4]\d|\d
            Group("V", Alt(<<Cat(<<Lit("5"), R(0, 3)>>),
                             Cat(<<Lit("0"), R(1, 9)>>),
                             Cat(<<R(1, 4), D>>),
                             D>>))
      [] directive = "y" ->
            \* \d\d
            Group("y", Cat(<<D, D>>))
      [] directive = "Y" ->
            \* \d\d\d\d
            Group("Y", Cat(<<D, D, D, D>>))
      [] directive = "z" ->
            \* [+-]\d\d:?[0-5]\d(:?[0-5]\d(\.\d{1,6})?)?|(?-i:Z)
            Group("z",
                  Alt(<<Cat(<<In({"+", "-"}), D, D, Rep(Lit(":"), 0, 1),
                              R(0, 5), D,
                              Rep(Cat(<<Rep(Lit(":"), 0, 1), R(0, 5), D,
                                        Rep(Cat(<<Lit("."), Rep(D, 1, 6)>>),
                                            0, 1)>>),
                                  0, 1)>>),
                        Exact("Z")>>))
      [] directive = "A" -> seqToRE(LocaleTime.f_weekday, "A")
      [] directive = "a" -> seqToRE(LocaleTime.a_weekday, "a")
      [] directive = "B" -> seqToRE(Tail(LocaleTime.f_month), "B")
      [] directive = "b" -> seqToRE(Tail(LocaleTime.a_month), "b")
      [] directive = "p" -> seqToRE(LocaleTime.am_pm, "p")
      [] directive = "Z" -> seqToRE(LocaleTime.timezone, "Z")
      [] directive = "%" -> Lit("%")
      [] directive = "c" -> pattern(LocaleTime.LC_date_time).value
      [] directive = "x" -> pattern(LocaleTime.LC_date).value
      [] directive = "X" -> pattern(LocaleTime.LC_time).value

\* the names of the groups of a pattern, in the order they stand in it
RECURSIVE GroupNames(_)
RECURSIVE GroupNamesOf(_, _)
GroupNames(node) ==
    CASE node.op = "group" -> <<node.name>> \o GroupNames(node.of)
      [] node.op = "rep" -> GroupNames(node.of)
      [] node.op \in {"cat", "alt"} -> GroupNamesOf(node.of, 1)
      [] OTHER -> <<>>
GroupNamesOf(nodes, k) ==
    IF k > Len(nodes) THEN <<>>
    ELSE GroupNames(nodes[k]) \o GroupNamesOf(nodes, k + 1)

\* a name stands twice: re.compile fails with "redefinition of group name"
Redefined(names) == \E i, j \in 1..Len(names) : i < j /\ names[i] = names[j]

(* the match of a pattern *)

\* where a match stands: the index of the next character of the string, and
\* the texts of the groups so far
MatchStart == [end |-> 1, found |-> EmptyDict]

\* Ends(node, s, m): the ways the pattern can match the string s from the
\* match m on, in the order in which re tries them; the first that lets the
\* rest of a pattern match is the one taken
RECURSIVE Ends(_, _, _)
RECURSIVE EndsEach(_, _, _)
RECURSIVE CatEnds(_, _, _, _)
RECURSIVE AltEnds(_, _, _, _)
RECURSIVE RepEnds(_, _, _, _, _)
RECURSIVE RepEach(_, _, _, _, _, _)

\* the matches es of a group that started at position start, each with the
\* text of the group
Captured(name, s, start, es) ==
    [i \in 1..Len(es) |->
        [es[i] EXCEPT !.found =
            DictSet(@, name, SubSeq(s, start, es[i].end - 1))]]

\* one character that satisfies the test
OneChar(ok, m) == IF ok THEN <<[m EXCEPT !.end = @ + 1]>> ELSE <<>>

Ends(node, s, m) ==
    CASE node.op = "in" ->
            OneChar(m.end <= Len(s) /\ s[m.end] \in node.set, m)
      [] node.op = "literal" ->
            OneChar(m.end <= Len(s) /\ SameCase(node.c, s[m.end]), m)
      [] node.op = "exact" ->
            OneChar(m.end <= Len(s) /\ s[m.end] = node.c, m)
      [] node.op = "cat" -> CatEnds(node.of, 1, s, <<m>>)
      [] node.op = "alt" -> AltEnds(node.of, 1, s, m)
      [] node.op = "rep" -> RepEnds(node.of, node.min, node.max, s, m)
      [] node.op = "group" ->
            Captured(node.name, s, m.end, Ends(node.of, s, m))

\* the matches of the pattern from each of the matches ms
EndsEach(node, s, ms) ==
    IF ms = <<>> THEN <<>>
    ELSE Ends(node, s, Head(ms)) \o EndsEach(node, s, Tail(ms))

\* the matches of the patterns from pattern k on, from each of the matches ms
CatEnds(nodes, k, s, ms) ==
    IF k > Len(nodes) \/ ms = <<>> THEN ms
    ELSE CatEnds(nodes, k + 1, s, EndsEach(nodes[k], s, ms))

\* the matches of the alternatives from alternative k on
AltEnds(nodes, k, s, m) ==
    IF k > Len(nodes) THEN <<>>
    ELSE Ends(nodes[k], s, m) \o AltEnds(nodes, k + 1, s, m)

\* the matches of from min to max repetitions: those with one more
\* repetition come first
RepEnds(node, min, max, s, m) ==
    IF max = 0 THEN <<m>>
    ELSE RepEach(node, min, max, s, Ends(node, s, m), m)
             \o (IF min <= 0 THEN <<m>> ELSE <<>>)

\* the matches of further repetitions after each of the matches es of one
\* repetition from m
RepEach(node, min, max, s, es, m) ==
    IF es = <<>> THEN <<>>
    ELSE (IF Head(es).end > m.end
          THEN RepEnds(node, min - 1, max - 1, s, Head(es)) ELSE <<>>)
         \o RepEach(node, min, max, s, Tail(es), m)

(* _strptime *)

None == <<>>

\* the values before the loop over the groups found
NotFound ==
    [raised |-> "none", year |-> None, iso_year |-> None, month |-> 1,
     day |-> 1, hour |-> 0, minute |-> 0, second |-> 0, fraction |-> 0,
     gmtoff |-> None, gmtoff_fraction |-> 0, iso_week |-> None,
     week_of_year |-> None, week_of_year_start |-> None, weekday |-> None,
     julian |-> None, leap_year_fix |-> FALSE]

Failed(t) == [t EXCEPT !.raised = "ValueError"]

\* the index of the text in the names, or the ValueError of list.index
MonthNamed(t, names, text) ==
    IF Index(names, lower(text)) < 0 THEN Failed(t)
    ELSE [t EXCEPT !.month = Index(names, lower(text))]
WeekdayNamed(t, names, text) ==
    IF Index(names, lower(text)) < 0 THEN Failed(t)
    ELSE [t EXCEPT !.weekday = <<Index(names, lower(text))>>]

\* the hour of %I with the text ampm of %p, "" when there is none
HourOf12(hour, ampm) ==
    IF ampm \in {<<>>, LocaleTime.am_pm[1]}
    THEN (IF hour = 12 THEN 0 ELSE hour)
    ELSE IF ampm = LocaleTime.am_pm[2]
    THEN (IF hour # 12 THEN hour + 12 ELSE hour)
    ELSE hour

\* the text of %z with its colons removed, or <<>> for the ValueError of an
\* inconsistent use of the colon
NoColon5(z) ==
    IF Len(z) > 5
    THEN (IF z[6] # ":" THEN <<>> ELSE SubSeq(z, 1, 5) \o SubSeq(z, 7, Len(z)))
    ELSE z
NoColons(z) ==
    IF z[4] = ":" THEN NoColon5(SubSeq(z, 1, 3) \o SubSeq(z, 5, Len(z))) ELSE z

\* the offset of the text z without colons: hours z[1:3], minutes z[3:5],
\* seconds z[5:7] or 0, and the fraction z[8:]; a colon left where the
\* seconds stand is a ValueError of int
Offset(t, z, sign) ==
    IF z = <<>> THEN Failed(t)
    ELSE IF Len(z) > 5 /\ z[6] = ":" THEN Failed(t)
    ELSE [t EXCEPT
            !.gmtoff = <<sign * (Number(SubSeq(z, 2, 3)) * 60 * 60
                                 + Number(SubSeq(z, 4, 5)) * 60
                                 + Number(Slice(z, 6, 7)))>>,
            !.gmtoff_fraction = sign * Number(Padded(Slice(z, 9, Len(z))))]

\* one pass of the loop over found_dict.keys(), for the group group_key
FoundGroup(t, group_key, found) ==
    CASE group_key = "y" ->
            [t EXCEPT !.year = <<IF int(found["y"]) <= 68
                                 THEN int(found["y"]) + 2000
                                 ELSE int(found["y"]) + 1900>>]
      [] group_key = "Y" -> [t EXCEPT !.year = <<int(found["Y"])>>]
      [] group_key = "G" -> [t EXCEPT !.iso_year = <<int(found["G"])>>]
      [] group_key = "m" -> [t EXCEPT !.month = int(found["m"])]
      [] group_key = "B" -> MonthNamed(t, LocaleTime.f_month, found["B"])
      [] group_key = "b" -> MonthNamed(t, LocaleTime.a_month, found["b"])
      [] group_key = "d" -> [t EXCEPT !.day = int(found["d"])]
      [] group_key = "H" -> [t EXCEPT !.hour = int(found["H"])]
      [] group_key = "I" ->
            [t EXCEPT !.hour =
                HourOf12(int(found["I"]),
                         IF "p" \in DOMAIN found THEN lower(found["p"])
                         ELSE <<>>)]
      [] group_key = "M" -> [t EXCEPT !.minute = int(found["M"])]
      [] group_key = "S" -> [t EXCEPT !.second = int(found["S"])]
      [] group_key = "f" -> [t EXCEPT !.fraction = Number(Padded(found["f"]))]
      [] group_key = "A" -> WeekdayNamed(t, LocaleTime.f_weekday, found["A"])
      [] group_key = "a" -> WeekdayNamed(t, LocaleTime.a_weekday, found["a"])
      [] group_key = "w" ->
            [t EXCEPT !.weekday = <<IF int(found["w"]) = 0 THEN 6
                                    ELSE int(found["w"]) - 1>>]
      [] group_key = "u" -> [t EXCEPT !.weekday = <<int(found["u"]) - 1>>]
      [] group_key = "j" -> [t EXCEPT !.julian = <<int(found["j"])>>]
      [] group_key = "U" ->
            [t EXCEPT !.week_of_year = <<int(found["U"])>>,
                      !.week_of_year_start = <<6>>]
      [] group_key = "W" ->
            [t EXCEPT !.week_of_year = <<int(found["W"])>>,
                      !.week_of_year_start = <<0>>]
      [] group_key = "V" -> [t EXCEPT !.iso_week = <<int(found["V"])>>]
      [] group_key = "z" ->
            IF found["z"] = <<"Z">> THEN [t EXCEPT !.gmtoff = <<0>>]
            ELSE Offset(t, NoColons(found["z"]),
                        IF found["z"][1] = "-" THEN -1 ELSE 1)
      \* %Z gives tz, which is no part of the date-time
      [] group_key = "Z" -> t
      \* %p is read with %I and has no branch of its own
      [] group_key = "p" -> t

\* the loop over found_dict.keys() from key i on; a failure ends it
RECURSIVE FoundFrom(_, _, _, _)
FoundFrom(t, keys, i, found) ==
    IF i > Len(keys) \/ t.raised # "none" THEN t
    ELSE FoundFrom(FoundGroup(t, keys[i], found), keys, i + 1, found)

\* the ambiguities: an ISO year without ISO week and weekday or with a day
\* of the year, and an ISO week without an ISO year, are ValueErrors
Ambiguities(t) ==
    IF t.raised # "none" THEN t
    ELSE IF t.year = None /\ t.iso_year # None
    THEN (IF t.iso_week = None \/ t.weekday = None \/ t.julian # None
          THEN Failed(t) ELSE t)
    ELSE IF t.week_of_year = None /\ t.iso_week # None THEN Failed(t)
    ELSE t

\* the year when none was found: 1904 for 29 February, else 1900
LeapYearFix(t) ==
    IF t.raised # "none" THEN t
    ELSE IF t.year = None /\ t.month = 2 /\ t.day = 29
    THEN [t EXCEPT !.year = <<1904>>, !.leap_year_fix = TRUE]
    ELSE IF t.year = None THEN [t EXCEPT !.year = <<1900>>]
    ELSE t

\* _calc_julian_from_U_or_W with first_weekday, the weekday of 1 January
JulianFromWeek(first_weekday, week_of_year, day_of_week) ==
    IF week_of_year = 0 THEN 1 + day_of_week - first_weekday
    ELSE 1 + ((7 - first_weekday) % 7) + 7 * (week_of_year - 1) + day_of_week

\* _calc_julian_from_U_or_W: the day of the year of the weekday of the week
calc_julian_from_U_or_W(year, week_of_year, day_of_week, week_starts_Mon) ==
    IF week_starts_Mon
    THEN JulianFromWeek(Weekday(year, 1, 1), week_of_year, day_of_week)
    ELSE JulianFromWeek((Weekday(year, 1, 1) + 1) % 7, week_of_year,
                        (day_of_week + 1) % 7)

\* _calc_julian_from_V after the first ordinal: a day before the year is a
\* day of the year before
JulianFromV(t, iso_year, ordinal) ==
    IF ordinal >= 1 THEN [t EXCEPT !.year = <<iso_year>>, !.julian = <<ordinal>>]
    ELSE IF iso_year - 1 < 1 THEN Failed(t)
    ELSE [t EXCEPT !.year = <<iso_year - 1>>,
                   !.julian = <<ordinal + DaysBeforeYear(iso_year)
                                  - DaysBeforeYear(iso_year - 1)>>]

\* _calc_julian_from_V: the year and the day of the year of the weekday of
\* the ISO week
calc_julian_from_V(t, iso_year, iso_week, iso_weekday) ==
    IF iso_year \notin 1..9999 THEN Failed(t)
    ELSE JulianFromV(t, iso_year,
                     iso_week * 7 + iso_weekday
                         - ((Weekday(iso_year, 1, 4) + 1) + 3))

\* a day of the year of 0 or less is a day of the year before
YearBefore(t) ==
    IF t.raised # "none" THEN t
    ELSE IF t.julian # None /\ t.julian[1] <= 0
    THEN [t EXCEPT !.year = <<t.year[1] - 1>>,
                   !.julian = <<t.julian[1]
                                  + (IF IsLeap(t.year[1] - 1) THEN 366 ELSE 365)>>]
    ELSE t

\* the day of the year from the week of the year, or from the ISO week
JulianOfWeek(t) ==
    IF t.week_of_year # None
    THEN (IF t.year[1] \notin 1..9999 THEN Failed(t)
          ELSE [t EXCEPT !.julian =
                    <<calc_julian_from_U_or_W(t.year[1], t.week_of_year[1],
                                              t.weekday[1],
                                              t.week_of_year_start[1] = 0)>>])
    ELSE IF t.iso_year # None /\ t.iso_week # None
    THEN calc_julian_from_V(t, t.iso_year[1], t.iso_week[1], t.weekday[1] + 1)
    ELSE t

\* the day of the year when none was found and the weekday is known
WeekJulian(t) ==
    IF t.raised # "none" THEN t
    ELSE IF t.julian # None \/ t.weekday = None THEN t
    ELSE YearBefore(JulianOfWeek(t))

\* the date of the day of ordinal n, or the ValueError of an ordinal that
\* no date has
OnOrdinal(t, n) ==
    \* date.max.toordinal() is 3652059
    IF n \notin 1..3652059 THEN Failed(t)
    ELSE [t EXCEPT !.year = <<FromOrdinal(n).year>>,
                   !.month = FromOrdinal(n).month,
                   !.day = FromOrdinal(n).day]

\* the day of the year from the date, or the date from the day of the year
JulianOrDate(t) ==
    IF t.raised # "none" THEN t
    ELSE IF t.julian = None
    THEN (IF ~IsDate(t.year[1], t.month, t.day) THEN Failed(t)
          ELSE [t EXCEPT !.julian =
                    <<ToOrdinal(t.year[1], t.month, t.day)
                        - ToOrdinal(t.year[1], 1, 1) + 1>>])
    ELSE IF t.year[1] \notin 1..9999 THEN Failed(t)
    ELSE OnOrdinal(t, (t.julian[1] - 1) + ToOrdinal(t.year[1], 1, 1))

\* the weekday of the date when none was found, and the year 1900 again for
\* a 29 February without a year
WeekdayAndYear(t) ==
    IF t.raised # "none" THEN t
    ELSE [t EXCEPT
            !.weekday = IF @ = None
                        THEN <<Weekday(t.year[1], t.month, t.day)>> ELSE @,
            !.year = IF t.leap_year_fix THEN <<1900>> ELSE @]

\* _strptime after the match: the loop over the groups, then the year, the
\* day of the year and the date
strptime_found(keys, found) ==
    WeekdayAndYear(JulianOrDate(WeekJulian(LeapYearFix(
        Ambiguities(FoundFrom(NotFound, keys, 1, found))))))

\* floor division and remainder, for a divisor above 0
FloorDiv(x, n) == IF x >= 0 THEN x \div n ELSE -((n - 1 - x) \div n)
FloorMod(x, n) == x - n * FloorDiv(x, n)

\* timedelta(seconds=seconds, microseconds=microseconds), which keeps days,
\* seconds from 0 to 86399 and microseconds from 0 to 999999
TimeDelta(seconds, microseconds) ==
    [days |-> FloorDiv(seconds + FloorDiv(microseconds, 1000000), 86400),
     seconds |-> FloorMod(seconds + FloorDiv(microseconds, 1000000), 86400),
     microseconds |-> FloorMod(microseconds, 1000000)]

\* datetime.timezone(timedelta(seconds=gmtoff, microseconds=gmtoff_fraction),
\* tzname), or None without %z; tzname is the text of %Z or None
TzInfo(t, found) ==
    IF t.gmtoff = None THEN None
    ELSE <<[utcoffset |-> TimeDelta(t.gmtoff[1], t.gmtoff_fraction),
            name |-> IF "Z" \in DOMAIN found THEN <<found["Z"]>> ELSE None]>>

\* cls(*args) of _strptime_datetime: the date-time of the values, or the
\* ValueError of a date that does not exist, of a second above 59 and of an
\* offset that is not within a day
DateTime(t, found) ==
    IF t.raised # "none" THEN [raised |-> t.raised, value |-> <<>>]
    ELSE IF \/ ~IsDate(t.year[1], t.month, t.day)
            \/ t.second > 59
            \/ (t.gmtoff # None /\ t.gmtoff[1] \notin (-86399)..86399)
    THEN [raised |-> "ValueError", value |-> <<>>]
    ELSE [raised |-> "none",
          value |-> [year |-> t.year[1], month |-> t.month, day |-> t.day,
                     hour |-> t.hour, minute |-> t.minute,
                     second |-> t.second, microsecond |-> t.fraction,
                     tzinfo |-> TzInfo(t, found)]]

\* the result for string s and the matches ms of the compiled format: no
\* match, and a match that leaves text over, are ValueErrors
StrptimeMatched(s, keys, ms) ==
    IF ms = <<>> THEN [raised |-> "ValueError", value |-> <<>>]
    ELSE IF Head(ms).end # Len(s) + 1 THEN [raised |-> "ValueError", value |-> <<>>]
    ELSE DateTime(strptime_found(keys, Head(ms).found), Head(ms).found)

\* _TimeRE_cache.compile(format): the pattern, or the ValueError of a bad
\* format, or the re.error of a directive given twice
Compiled(p) ==
    IF p.raised # "none" THEN p
    ELSE IF Redefined(GroupNames(p.value)) THEN [raised |-> "re.error", value |-> <<>>]
    ELSE p
compile(format) == Compiled(pattern(format))

\* strptime with the compiled format
StrptimeCompiled(s, format_regex) ==
    IF format_regex.raised # "none"
    THEN [raised |-> format_regex.raised, value |-> <<>>]
    ELSE StrptimeMatched(s, GroupNames(format_regex.value),
                         Ends(format_regex.value, s, MatchStart))

\* datetime.datetime.strptime(s, format): the date-time value, or a failure
Strptime(s, format) == StrptimeCompiled(s, compile(format))

\* the moment of a date-time as days, seconds and microseconds, in UTC when
\* it has an offset
Seconds(a) ==
    a.hour * 3600 + a.minute * 60 + a.second
        - (IF a.tzinfo = None THEN 0
           ELSE a.tzinfo[1].utcoffset.days * 86400 + a.tzinfo[1].utcoffset.seconds)
Micros(a) ==
    a.microsecond
        - (IF a.tzinfo = None THEN 0 ELSE a.tzinfo[1].utcoffset.microseconds)
Moment(a) ==
    <<ToOrdinal(a.year, a.month, a.day)
          + FloorDiv(Seconds(a) + FloorDiv(Micros(a), 1000000), 86400),
      FloorMod(Seconds(a) + FloorDiv(Micros(a), 1000000), 86400),
      FloorMod(Micros(a), 1000000)>>

\* moment x is before moment y
MomentLess(x, y) ==
    \/ x[1] < y[1]
    \/ x[1] = y[1] /\ x[2] < y[2]
    \/ x[1] = y[1] /\ x[2] = y[2] /\ x[3] < y[3]

\* a < b on the date-time values of one format, which all have an offset or
\* all have none
DateTimeLess(a, b) == MomentLess(Moment(a), Moment(b))

\* the loop of parse_date from record i on, with the compiled format: each
\* record gets its "datetime"; the records are changed in place, so when a
\* record fails, by the KeyError of a record without "date" or by the
\* failure of strptime, those before it keep theirs and the others are as
\* before
RECURSIVE AttachFrom(_, _, _)
Attached(datafiles, i, format_regex, d) ==
    IF d.raised # "none" THEN [raised |-> d.raised, value |-> datafiles]
    ELSE AttachFrom(SubSeq(datafiles, 1, i - 1)
                        \o <<DictSet(datafiles[i], "datetime", d.value)>>
                        \o SubSeq(datafiles, i + 1, Len(datafiles)),
                    i + 1, format_regex)
AttachFrom(datafiles, i, format_regex) ==
    IF i > Len(datafiles) THEN [raised |-> "none", value |-> datafiles]
    ELSE IF "date" \notin DOMAIN datafiles[i]
    THEN [raised |-> "KeyError", value |-> datafiles]
    ELSE Attached(datafiles, i, format_regex,
                  StrptimeCompiled(datafiles[i]["date"], format_regex))

AttachDates(datafiles, date_format) ==
    AttachFrom(datafiles, 1, compile(date_format))

DateTimeMore(a, b) == DateTimeLess(b, a)

\* the number of records that sorted() puts before record i or at it, where
\* the later date-time comes first when reverse is true and the earlier
\* when it is false: the records of the list up to record i that it does
\* not come before, and the records after it that come first
Place(datafiles, i, reverse) ==
    LET first(a, b) ==
            IF reverse THEN DateTimeMore(a, b) ELSE DateTimeLess(a, b)
    IN  Cardinality({j \in 1..i :
                        ~first(datafiles[i]["datetime"],
                               datafiles[j]["datetime"])})
            + Cardinality({j \in (i + 1)..Len(datafiles) :
                              first(datafiles[j]["datetime"],
                                    datafiles[i]["datetime"])})

\* a faulty variant that sorts in ascending order
SortedByDateAscending(datafiles) ==
    [p \in 1..Len(datafiles) |->
        datafiles[CHOOSE i \in 1..Len(datafiles) :
                     Place(datafiles, i, FALSE) = p]]

\* sorted(datafiles, key=lambda x: x["datetime"], reverse=True), a stable
\* sort: a record comes after the records with a later date-time and after
\* the earlier records of the list with the same date-time
SortedByDate(datafiles) ==
    [p \in 1..Len(datafiles) |->
        datafiles[CHOOSE i \in 1..Len(datafiles) :
                     Place(datafiles, i, TRUE) = p]]

\* the end of parse_date, given the outcome a of its loop: the records
\* after the loop, and the list returned
ParseDateReturn(a) ==
    IF a.raised # "none"
    THEN [raised |-> a.raised, datafiles |-> a.value, value |-> <<>>]
    ELSE [raised |-> "none", datafiles |-> a.value, value |-> SortedByDate(a.value)]

\* parse_date with self.date_format
parse_date(datafiles, date_format) ==
    ParseDateReturn(AttachDates(datafiles, date_format))

\* the formats of the model: day, month and year of two digits; year of
\* four digits, month and day; and hour and offset from UTC
DateFormats ==
    { <<"%", "d", "%", "m", "%", "y">>,
      <<"%", "Y", "%", "m", "%", "d">>,
      <<"%", "H", "%", "z">> }

\* the date strings of the model for a format: dates that match it, among
\* them one with a digit outside ASCII and two hours at the same instant
\* under different offsets, and one that does not match or is no date
DateStrings(date_format) ==
    CASE date_format = <<"%", "d", "%", "m", "%", "y">> ->
        { <<"0", "1", "0", "1", "6", "9">>,
          <<"0", "1", "0", "1", "6", "8">>,
          <<"3", "0", "0", "2", "0", "0">>,
          <<"1", "U+0662", "0", "1", "2", "4">> }
      [] date_format = <<"%", "Y", "%", "m", "%", "d">> ->
        { <<"0", "1", "0", "1", "6", "9">>,
          <<"2", "0", "2", "4", "0", "1", "1", "2">>,
          <<"3", "0", "0", "2", "0", "0">>,
          <<"1", "U+0662", "0", "1", "2", "4">> }
      [] date_format = <<"%", "H", "%", "z">> ->
        { <<"0", "0", "+", "0", "1", "0", "0">>,
          <<"0", "1", "+", "0", "1", ":", "0", "0">>,
          <<"0", "0", "Z">>,
          <<"2", "4", "+", "0", "0", "0", "0">> }

\* the formats and date strings of the model that match, with the value
\* Python gives for each
ValidDates ==
    { [date_format |-> <<"%", "d", "%", "m", "%", "y">>,
       date |-> <<"0", "1", "0", "1", "6", "9">>,
       datetime |-> [year |-> 1969, month |-> 1, day |-> 1, hour |-> 0,
                    minute |-> 0, second |-> 0, microsecond |-> 0,
                    tzinfo |-> <<>>]],
      [date_format |-> <<"%", "d", "%", "m", "%", "y">>,
       date |-> <<"0", "1", "0", "1", "6", "8">>,
       datetime |-> [year |-> 2068, month |-> 1, day |-> 1, hour |-> 0,
                    minute |-> 0, second |-> 0, microsecond |-> 0,
                    tzinfo |-> <<>>]],
      [date_format |-> <<"%", "d", "%", "m", "%", "y">>,
       date |-> <<"1", "U+0662", "0", "1", "2", "4">>,
       datetime |-> [year |-> 2024, month |-> 1, day |-> 12, hour |-> 0,
                    minute |-> 0, second |-> 0, microsecond |-> 0,
                    tzinfo |-> <<>>]],
      [date_format |-> <<"%", "Y", "%", "m", "%", "d">>,
       date |-> <<"0", "1", "0", "1", "6", "9">>,
       datetime |-> [year |-> 101, month |-> 6, day |-> 9, hour |-> 0,
                    minute |-> 0, second |-> 0, microsecond |-> 0,
                    tzinfo |-> <<>>]],
      [date_format |-> <<"%", "Y", "%", "m", "%", "d">>,
       date |-> <<"2", "0", "2", "4", "0", "1", "1", "2">>,
       datetime |-> [year |-> 2024, month |-> 1, day |-> 12, hour |-> 0,
                    minute |-> 0, second |-> 0, microsecond |-> 0,
                    tzinfo |-> <<>>]],
      [date_format |-> <<"%", "Y", "%", "m", "%", "d">>,
       date |-> <<"1", "U+0662", "0", "1", "2", "4">>,
       datetime |-> [year |-> 1201, month |-> 2, day |-> 4, hour |-> 0,
                    minute |-> 0, second |-> 0, microsecond |-> 0,
                    tzinfo |-> <<>>]],
      [date_format |-> <<"%", "H", "%", "z">>,
       date |-> <<"0", "0", "+", "0", "1", "0", "0">>,
       datetime |-> [year |-> 1900, month |-> 1, day |-> 1, hour |-> 0,
                    minute |-> 0, second |-> 0, microsecond |-> 0,
                    tzinfo |-> <<[utcoffset |-> [days |-> 0, seconds |-> 3600,
                                               microseconds |-> 0],
                                 name |-> <<>>]>>]],
      [date_format |-> <<"%", "H", "%", "z">>,
       date |-> <<"0", "1", "+", "0", "1", ":", "0", "0">>,
       datetime |-> [year |-> 1900, month |-> 1, day |-> 1, hour |-> 1,
                    minute |-> 0, second |-> 0, microsecond |-> 0,
                    tzinfo |-> <<[utcoffset |-> [days |-> 0, seconds |-> 3600,
                                               microseconds |-> 0],
                                 name |-> <<>>]>>]],
      [date_format |-> <<"%", "H", "%", "z">>,
       date |-> <<"0", "0", "Z">>,
       datetime |-> [year |-> 1900, month |-> 1, day |-> 1, hour |-> 0,
                    minute |-> 0, second |-> 0, microsecond |-> 0,
                    tzinfo |-> <<[utcoffset |-> [days |-> 0, seconds |-> 0,
                                               microseconds |-> 0],
                                 name |-> <<>>]>>]] }

\* the base names of the post files
PostBaseNames == <<"p1", "p2", "p3", "p4", "p5">>

\* post records as extract_data leaves them, one per date string of dates,
\* in the order of the directory listing; names[i] is the file of record i
PostsOf(names, dates) ==
    [i \in 1..Len(dates) |->
        [filename |-> <<PostBaseNames[names[i]], "html">>, data |-> <<"html-of">>,
         date |-> dates[i]]]

\* the orders of n files
Orders(n) == {l \in [1..n -> 1..n] : \A i, j \in 1..n : i # j => l[i] # l[j]}

InitDate ==
    /\ pc = "call"
    /\ ret = <<>>
    /\ raised = "none"
    /\ fs = <<>>
    /\ user_config = Unset
    /\ data_handle = <<>>
    /\ template_handle = <<>>
    /\ written = <<>>
    /\ \E date_format \in DateFormats :
       \E dates \in SeqUpTo(DateStrings(date_format), MaxPosts) :
       \E names \in Orders(Len(dates)) :
          /\ args = [op |-> "PostCollector.__init__", date_format |-> date_format]
          /\ post_handle = PostsOf(names, dates)

\* self.datafiles = self.parse_date()
ParseDate ==
    /\ pc = "call"
    /\ \E r \in {parse_date(post_handle, args.date_format)} :
           /\ raised' = r.raised
           /\ ret' = r.value
           /\ post_handle' = IF r.raised = "none" THEN r.value ELSE r.datafiles
    /\ args' = [op |-> "parse_date", date_format |-> args.date_format,
                datafiles |-> post_handle]
    /\ pc' = "returned"
    /\ UNCHANGED <<fs, user_config, data_handle, template_handle, written>>

NextDate == ParseDate

SpecDate == InitDate /\ [][NextDate]_vars

----------------------------------------------------------------------------
(* Claims about PostCollector.parse_date *)

DateParsed == pc = "returned" /\ args.op = "parse_date"

AllDatesValid ==
    \A i \in 1..Len(args.datafiles) :
        \E v \in ValidDates :
            v.date_format = args.date_format /\ v.date = args.datafiles[i]["date"]

\* the date-time value Python gives for date string s and the format
ValueOfDate(s) ==
    (CHOOSE v \in ValidDates : v.date_format = args.date_format /\ v.date = s).datetime

\* C2: when every date string matches the configured format, parse_date
\* returns a permutation of the input records, each carrying its parsed
\* value in "datetime", ordered non-increasing by that value.
Thm_C2 ==
    (DateParsed /\ AllDatesValid) =>
        /\ raised = "none"
        /\ Len(ret) = Len(args.datafiles)
        /\ \A i \in 1..Len(args.datafiles) :
              Cardinality({k \in 1..Len(ret) :
                  /\ ret[k]["filename"] = args.datafiles[i]["filename"]
                  /\ ret[k]["date"] = args.datafiles[i]["date"]
                  /\ ret[k]["data"] = args.datafiles[i]["data"]}) = 1
        /\ \A k \in 1..Len(ret) :
              /\ DOMAIN ret[k] = {"filename", "data", "date", "datetime"}
              /\ ret[k]["datetime"] = ValueOfDate(ret[k]["date"])
        /\ \A k \in 1..(Len(ret) - 1) :
              ~DateTimeLess(ret[k]["datetime"], ret[k + 1]["datetime"])

\* three posts given oldest first under the format of day, month and year,
\* one of the year 69, one whose day has a digit outside ASCII and one of the
\* year 68, have been sorted
Wit_C2 ==
    /\ DateParsed /\ AllDatesValid /\ raised = "none"
    /\ args.date_format = <<"%", "d", "%", "m", "%", "y">>
    /\ Len(ret) = 3
    /\ args.datafiles[1]["date"] = <<"0","1","0","1","6","9">>
    /\ args.datafiles[2]["date"] = <<"1","U+0662","0","1","2","4">>
    /\ args.datafiles[3]["date"] = <<"0","1","0","1","6","8">>
    /\ ret[1]["filename"] = args.datafiles[3]["filename"]
    /\ ret[2]["datetime"] = [year |-> 2024, month |-> 1, day |-> 12, hour |-> 0,
                              minute |-> 0, second |-> 0, microsecond |-> 0,
                              tzinfo |-> <<>>]

----------------------------------------------------------------------------
(* Config *)

default_config ==
    [data_dir |-> "data",
     template_dir |-> "templates",
     posts_dir |-> "posts",
     public_dir |-> "public",
     data_indexs |-> <<>>,
     create_public_dir |-> TRUE,
     data_format |-> "csv",
     verbose_mode |-> FALSE,
     home_template |-> "home.html",
     date_format |-> "%d%m%y"]

\* values a config file may give to options
UserValues ==
    [data_dir |-> "content",
     verbose_mode |-> TRUE,
     home_template |-> "main.html",
     date_format |-> "%Y%m%d"]

\* the JSON objects a config file may hold
UserConfigs ==
    {[k \in keys |-> UserValues[k]] : keys \in SUBSET (DOMAIN UserValues)}

\* the config files: none, one that is not JSON, one holding an object
ConfigFiles ==
    {[exists |-> FALSE, valid |-> FALSE, json |-> EmptyDict],
     [exists |-> TRUE, valid |-> FALSE, json |-> EmptyDict]}
    \cup {[exists |-> TRUE, valid |-> TRUE, json |-> u] : u \in UserConfigs}

OptionKeys == (DOMAIN default_config) \cup {"theme"}

\* getconf(key): self.user_config.get(key, Config.default_config[key]); the
\* attribute is read first, then the default is looked up, then get is called
getconf(config, key) ==
    IF ~config.bound THEN [raised |-> "AttributeError", value |-> <<>>]
    ELSE IF key \notin DOMAIN default_config THEN [raised |-> "KeyError", value |-> <<>>]
    ELSE IF key \in DOMAIN config.map THEN [raised |-> "none", value |-> config.map[key]]
    ELSE [raised |-> "none", value |-> default_config[key]]

InitConfig ==
    /\ pc = "start"
    /\ args = NoArgs
    /\ ret = <<>>
    /\ raised = "none"
    /\ \E f \in ConfigFiles : fs = [config |-> f]
    /\ user_config = Unset
    /\ data_handle = <<>>
    /\ template_handle = <<>>
    /\ post_handle = <<>>
    /\ written = <<>>

\* Config.__init__: the file is opened and loaded; when there is no file the
\* handler of FileNotFoundError calls self.getconf("verbose_mode") for the
\* flag of the message, with user_config as the try block left it
ConfigConstruct ==
    /\ pc = "start"
    /\ args' = [op |-> "Config.__init__"]
    /\ IF fs.config.exists
       THEN IF fs.config.valid
            THEN /\ user_config' = [bound |-> TRUE, map |-> fs.config.json]
                 /\ raised' = "none"
                 /\ pc' = "constructed"
            ELSE /\ raised' = "JSONDecodeError"
                 /\ pc' = "failed"
                 /\ UNCHANGED user_config
       ELSE LET flag == getconf(user_config, "verbose_mode")
            IN  /\ raised' = flag.raised
                /\ pc' = IF flag.raised = "none" THEN "constructed" ELSE "failed"
                /\ UNCHANGED user_config
    /\ UNCHANGED <<ret, fs, data_handle, template_handle, post_handle, written>>

\* a call of getconf on the constructed Config
Getconf ==
    /\ pc = "constructed"
    /\ \E key \in OptionKeys :
          /\ args' = [op |-> "getconf", key |-> key]
          /\ LET r == getconf(user_config, key)
             IN  /\ ret' = r.value
                 /\ raised' = r.raised
    /\ pc' = "returned"
    /\ UNCHANGED <<fs, user_config, data_handle, template_handle, post_handle,
                   written>>

NextConfig == ConfigConstruct \/ Getconf

SpecConfig == InitConfig /\ [][NextConfig]_vars

----------------------------------------------------------------------------
(* Claims about Config *)

\* C5: when the config file does not exist, Config construction completes
\* without raising, and afterwards getconf(key) returns the built-in default
\* for every option key.
Cex_C5 ==
    (pc # "start" /\ ~fs.config.exists) =>
        /\ pc \in {"constructed", "returned"}
        /\ raised = "none"
        /\ (pc = "returned" /\ args.key \in DOMAIN default_config) =>
               ret = default_config[args.key]

----------------------------------------------------------------------------
(* PostCollector.extract_data *)

\* Utils.filename: the base name without its last extension
\* (os.path.splitext: the last component is an extension only when a
\* non-empty component stands before it, so the leading dots of a dotfile
\* such as ".md", <<"", "md">>, do not start an extension)
UtilsFilename(path) ==
    IF Len(path) > 1 /\ \E k \in 1..(Len(path) - 1) : path[k] # ""
    THEN SubSeq(path, 1, Len(path) - 1)
    ELSE path

\* Utils.ext: the extension appended to the name
UtilsExt(filename, extension) == Append(filename, extension)

\* str.split(sep) for a one-character sep: the parts between all occurrences
RECURSIVE Split(_, _)
Split(s, sep) ==
    IF \A i \in 1..Len(s) : s[i] # sep THEN <<s>>
    ELSE LET first == CHOOSE i \in 1..Len(s) :
                          s[i] = sep /\ \A k \in 1..(i-1) : s[k] # sep
         IN  <<SubSeq(s, 1, first - 1)>> \o Split(SubSeq(s, first + 1, Len(s)), sep)

\* the characters of post files in the model
PostChars == {"{", "}", "#"}

\* json.loads on texts over PostChars: the only JSON document is the empty
\* object
JsonLoads(text) ==
    IF text = <<"{", "}">> THEN [raised |-> "none", value |-> EmptyDict]
    ELSE [raised |-> "JSONDecodeError", value |-> EmptyDict]

\* the markdown collaborator: the HTML made from a markdown text
Markdown(text) == <<"html-of">> \o text

\* the record of a post: the filename and the HTML, then the items of the
\* metadata, which replace a key that is already there
PostRecord(path, json_, markdown) ==
    LET datafile == [filename |-> UtilsExt(UtilsFilename(path), "html"),
                     data |-> Markdown(markdown)]
    IN  [k \in (DOMAIN datafile) \cup (DOMAIN json_) |->
            IF k \in DOMAIN json_ THEN json_[k] ELSE datafile[k]]

\* one pass of the loop of extract_data: the record of a post file, or the
\* failure of the unpacking of the split or of json.loads
ExtractPost(path, content) ==
    LET parts == Split(content, "}")
    IN  IF Len(parts) # 2 THEN [raised |-> "ValueError", value |-> EmptyDict]
        ELSE LET json_ == JsonLoads(parts[1] \o <<"}">>)
             IN  IF json_.raised # "none"
                 THEN [raised |-> json_.raised, value |-> EmptyDict]
                 ELSE [raised |-> "none",
                       value |-> PostRecord(path, json_.value, parts[2])]

\* the loop of extract_data over the listed files, from index i on
RECURSIVE ExtractFrom(_, _, _, _)
ExtractFrom(listing, files, i, datafiles) ==
    IF i > Len(listing) THEN [raised |-> "none", value |-> datafiles]
    ELSE LET r == ExtractPost(listing[i], files[listing[i]])
         IN  IF r.raised # "none" THEN [raised |-> r.raised, value |-> datafiles]
             ELSE ExtractFrom(listing, files, i + 1, Append(datafiles, r.value))

PostPaths == {<<"a", "md">>, <<"", "md">>}

\* the orders in which os.listdir may give the files of a directory
Listings(files) ==
    {l \in [1..Cardinality(DOMAIN files) -> DOMAIN files] :
        \A i, j \in DOMAIN l : i # j => l[i] # l[j]}

InitExtract ==
    /\ pc = "call"
    /\ args = NoArgs
    /\ ret = <<>>
    /\ raised = "none"
    /\ \E paths \in SUBSET PostPaths :
       \E files \in [paths -> SeqUpTo(PostChars, MaxLen)] : fs = [posts |-> files]
    /\ user_config = Unset
    /\ data_handle = <<>>
    /\ template_handle = <<>>
    /\ post_handle = <<>>
    /\ written = <<>>

\* self.extract_data() of PostCollector.__init__
ExtractData ==
    /\ pc = "call"
    /\ \E listing \in Listings(fs.posts) :
          /\ args' = [op |-> "extract_data", listing |-> listing]
          /\ LET r == ExtractFrom(listing, fs.posts, 1, post_handle)
             IN  /\ post_handle' = r.value
                 /\ raised' = r.raised
                 /\ ret' = IF r.raised = "none" THEN r.value ELSE <<>>
    /\ pc' = "returned"
    /\ UNCHANGED <<fs, user_config, data_handle, template_handle, written>>

NextExtract == ExtractData

SpecExtract == InitExtract /\ [][NextExtract]_vars

----------------------------------------------------------------------------
(* Claims about PostCollector.extract_data *)

\* the position of the first closing brace of content s, 0 when it has none
FirstBrace(s) ==
    IF \A i \in 1..Len(s) : s[i] # "}" THEN 0
    ELSE CHOOSE i \in 1..Len(s) : s[i] = "}" /\ \A k \in 1..(i-1) : s[k] # "}"

\* the text up to and including the first closing brace is a metadata object
MetadataFirst(s) ==
    FirstBrace(s) > 0 /\ SubSeq(s, 1, FirstBrace(s)) = <<"{", "}">>

\* C6: each post file is split in two at the first closing brace only: the
\* text up to and including it is the metadata, everything after it, later
\* closing braces included, is the markdown body, and a file with further
\* closing braces is still collected as one post record.
Cex_C6 ==
    (/\ pc = "returned" /\ args.op = "extract_data"
     /\ \A p \in DOMAIN fs.posts : MetadataFirst(fs.posts[p])) =>
        /\ raised = "none"
        /\ Len(post_handle) = Cardinality(DOMAIN fs.posts)
        /\ \A i \in 1..Len(post_handle) :
              LET content == fs.posts[args.listing[i]]
              IN  post_handle[i]["data"] =
                     Markdown(SubSeq(content, FirstBrace(content) + 1, Len(content)))

----------------------------------------------------------------------------
(* DataCollector.extract_data and TemplateCollector.extract_data *)

\* open(file_, "r") reads the file in text mode with universal newlines:
\* what the program reads of the bytes of the file, from character i on,
\* has "\n" for each "\r\n" and for each other "\r"
RECURSIVE TextFrom(_, _)
TextFrom(bytes, i) ==
    IF i > Len(bytes) THEN <<>>
    ELSE IF bytes[i] # "\r" THEN <<bytes[i]>> \o TextFrom(bytes, i + 1)
    ELSE IF i < Len(bytes) /\ bytes[i + 1] = "\n"
         THEN <<"\n">> \o TextFrom(bytes, i + 2)
         ELSE <<"\n">> \o TextFrom(bytes, i + 1)

\* the text of a file opened with open(file_, "r")
TextOf(bytes) == TextFrom(bytes, 1)

\* csv.reader with its default quoting, on the text of a file. The reader
\* is in one of the states START_RECORD, START_FIELD, IN_FIELD,
\* IN_QUOTED_FIELD, QUOTE_IN_QUOTED_FIELD and EAT_CRNL; st holds the state,
\* the field and the record under way, and the rows read
CsvStart == [state |-> "START_RECORD", field |-> <<>>, record |-> <<>>, rows |-> <<>>]

\* the field under way is added to the record
CsvSaveField(st, state) ==
    [state |-> state, field |-> <<>>, record |-> Append(st.record, st.field),
     rows |-> st.rows]

\* character c is added to the field under way
CsvAddChar(st, c, state) ==
    [state |-> state, field |-> Append(st.field, c), record |-> st.record,
     rows |-> st.rows]

CsvState(st, state) ==
    [state |-> state, field |-> st.field, record |-> st.record, rows |-> st.rows]

\* the reader takes character c; the text of a file opened in text mode has
\* no "\r", and a "\n" only at the end of a line, so that in EAT_CRNL the
\* end of the line is all that follows
CsvChar(st, c) ==
    CASE st.state = "START_RECORD" /\ c = "\n" -> CsvState(st, "EAT_CRNL")
      [] st.state \in {"START_RECORD", "START_FIELD"} /\ c # "\n" ->
            IF c = "\"" THEN CsvState(st, "IN_QUOTED_FIELD")
            ELSE IF c = "," THEN CsvSaveField(st, "START_FIELD")
            ELSE CsvAddChar(st, c, "IN_FIELD")
      [] st.state = "START_FIELD" /\ c = "\n" -> CsvSaveField(st, "EAT_CRNL")
      [] st.state = "IN_FIELD" ->
            IF c = "\n" THEN CsvSaveField(st, "EAT_CRNL")
            ELSE IF c = "," THEN CsvSaveField(st, "START_FIELD")
            ELSE CsvAddChar(st, c, "IN_FIELD")
      [] st.state = "IN_QUOTED_FIELD" ->
            IF c = "\"" THEN CsvState(st, "QUOTE_IN_QUOTED_FIELD")
            ELSE CsvAddChar(st, c, "IN_QUOTED_FIELD")
      [] st.state = "QUOTE_IN_QUOTED_FIELD" ->
            IF c = "\"" THEN CsvAddChar(st, c, "IN_QUOTED_FIELD")
            ELSE IF c = "," THEN CsvSaveField(st, "START_FIELD")
            ELSE IF c = "\n" THEN CsvSaveField(st, "EAT_CRNL")
            ELSE CsvAddChar(st, c, "IN_FIELD")
      [] st.state = "EAT_CRNL" -> st

\* the record under way is a row read
CsvEndRecord(st) ==
    [state |-> "START_RECORD", field |-> <<>>, record |-> <<>>,
     rows |-> Append(st.rows, st.record)]

\* the reader comes to the end of a line of the file: the row is read,
\* unless a quoted field is open, which goes on into the next line
CsvEndOfLine(st) ==
    CASE st.state \in {"START_FIELD", "IN_FIELD", "QUOTE_IN_QUOTED_FIELD"} ->
            CsvEndRecord(CsvSaveField(st, "START_RECORD"))
      [] st.state \in {"START_RECORD", "EAT_CRNL"} -> CsvEndRecord(st)
      [] st.state = "IN_QUOTED_FIELD" -> st

\* the reader takes character i of the text; a line of the file ends after
\* a newline and at the end of the text
CsvTake(text, i, st) ==
    IF text[i] = "\n" \/ i = Len(text) THEN CsvEndOfLine(CsvChar(st, text[i]))
    ELSE CsvChar(st, text[i])

\* the rows read from character i of the text on; at the end of the file
\* the row of a quoted field that is still open is read
RECURSIVE CsvFrom(_, _, _)
CsvFrom(text, i, st) ==
    IF i > Len(text)
    THEN IF st.state = "IN_QUOTED_FIELD"
         THEN Append(st.rows, Append(st.record, st.field))
         ELSE st.rows
    ELSE CsvFrom(text, i + 1, CsvTake(text, i, st))

\* list(csv.reader(f, delimiter=",")) on the file f opened in text mode
CsvReader(bytes) == CsvFrom(TextOf(bytes), 1, CsvStart)

\* s[::-1]
Reversed(s) == [i \in 1..Len(s) |-> s[Len(s) + 1 - i]]

\* the record of a data file, given the outcome r of apply_headings
DataRecord(path, r) ==
    IF r.raised # "none" THEN [raised |-> r.raised, value |-> EmptyDict]
    ELSE [raised |-> "none",
          value |-> [filename |-> UtilsFilename(path), data |-> r.value]]

\* the record of a data file, given the rows read from it: the first row
\* is the headings, the other rows are taken last first; next(csvreader)
\* fails when there is no row
ExtractRows(path, rows) ==
    IF Len(rows) = 0 THEN [raised |-> "StopIteration", value |-> EmptyDict]
    ELSE DataRecord(path, apply_headings(rows[1], Reversed(Tail(rows))))

\* one pass of the loop of DataCollector.extract_data, for the file of the
\* path and its content
ExtractCsv(path, bytes) == ExtractRows(path, CsvReader(bytes))

\* the loop of DataCollector.extract_data over the listed files, from index
\* i on; the records are appended to datafiles, and those appended before a
\* failure stay
RECURSIVE DataExtractFrom(_, _, _, _)
DataExtractFrom(listing, files, i, datafiles) ==
    IF i > Len(listing) THEN [raised |-> "none", value |-> datafiles]
    ELSE LET r == ExtractCsv(listing[i], files[listing[i]])
         IN  IF r.raised # "none" THEN [raised |-> r.raised, value |-> datafiles]
             ELSE DataExtractFrom(listing, files, i + 1, Append(datafiles, r.value))

\* TemplateCollector.extract_data: one record per listed file, appended to
\* datafiles
TemplateExtract(listing, files, datafiles) ==
    datafiles \o [i \in 1..Len(listing) |->
                     [filename |-> UtilsFilename(listing[i]),
                      data |-> files[listing[i]]]]

----------------------------------------------------------------------------
(* Lookups in a collector *)

TemplatePaths == {<<"dir", "html">>, <<"dir", "txt">>, <<"essay", "html">>}
TemplateTexts == {<<"t1">>, <<"t2">>}
CsvPaths == {<<"projects", "csv">>}
\* texts of a csv file: no lines; two rows; lines that end in "\r\n" and
\* in "\r"; a quoted value with a comma; a row longer than the headings; an
\* empty line
CsvTexts ==
    { <<>>,
      <<"i", "d", "\n", "1", "\n", "2", "\n">>,
      <<"i", "d", "\r", "\n", "1", "\r", "3", "\r", "\n">>,
      <<"i", "d", "\n", "\"", "1", ",", "2", "\"", "\n">>,
      <<"i", "d", "\n", "1", ",", "2", "\n">>,
      <<"i", "d", "\n", "\n">> }
LookupNames == {<<"dir">>, <<"essay">>, <<"home">>, <<"projects">>}

InitLookup ==
    /\ pc = "call"
    /\ args = NoArgs
    /\ ret = <<>>
    /\ raised = "none"
    /\ \E csvs \in SUBSET CsvPaths : \E templates \in SUBSET TemplatePaths :
       \E data \in [csvs -> CsvTexts] : \E texts \in [templates -> TemplateTexts] :
          fs = [data |-> data, templates |-> texts]
    /\ user_config = Unset
    /\ data_handle = <<>>
    /\ template_handle = <<>>
    /\ post_handle = <<>>
    /\ written = <<>>

\* a call of DataCollector.extract_data, the first by the constructor
DataExtractData ==
    /\ pc = "call"
    /\ Len(data_handle) + Cardinality(DOMAIN fs.data) <= MaxStored
    /\ \E listing \in Listings(fs.data) :
       \E r \in {DataExtractFrom(listing, fs.data, 1, data_handle)} :
           /\ data_handle' = r.value
           /\ raised' = r.raised
           /\ pc' = IF r.raised = "none" THEN "call" ELSE "failed"
           /\ args' = [op |-> "DataCollector.extract_data", listing |-> listing]
    /\ UNCHANGED <<ret, fs, user_config, template_handle, post_handle, written>>

\* a call of TemplateCollector.extract_data, the first by the constructor
TemplateExtractData ==
    /\ pc = "call"
    /\ Len(template_handle) + Cardinality(DOMAIN fs.templates) <= MaxStored
    /\ \E listing \in Listings(fs.templates) :
           /\ template_handle' = TemplateExtract(listing, fs.templates, template_handle)
           /\ args' = [op |-> "TemplateCollector.extract_data", listing |-> listing]
    /\ UNCHANGED <<pc, ret, raised, fs, user_config, data_handle, post_handle,
                   written>>

\* the records of a collector
DatafilesOf(collector) ==
    IF collector = "data" THEN data_handle ELSE template_handle

\* a call of getdatafile on a collector; args keeps the records the
\* collector held when it was called
GetDataFile ==
    /\ pc = "call"
    /\ \E collector \in {"data", "template"} : \E name \in LookupNames :
          /\ args' = [op |-> "getdatafile", collector |-> collector,
                      name |-> name, datafiles |-> DatafilesOf(collector)]
          /\ ret' = getdatafile(DatafilesOf(collector), name)
    /\ pc' = "returned"
    /\ UNCHANGED <<raised, fs, user_config, data_handle, template_handle,
                   post_handle, written>>

NextLookup == DataExtractData \/ TemplateExtractData \/ GetDataFile

SpecLookup == InitLookup /\ [][NextLookup]_vars

----------------------------------------------------------------------------
(* Claims about Collector.getdatafile *)

LookedUp == pc = "returned" /\ args.op = "getdatafile"

\* the positions of the stored records whose filename is the name asked for
Matches == {i \in 1..Len(args.datafiles) : args.datafiles[i]["filename"] = args.name}

\* C7: getdatafile never fails; it returns an empty sequence when the
\* collector is empty or holds no record of that filename, and otherwise the
\* "data" of the first stored record of that filename; the stored records
\* are left unchanged.
Thm_C7 ==
    LookedUp =>
        /\ raised = "none"
        /\ DatafilesOf(args.collector) = args.datafiles
        /\ Matches = {} => ret = <<>>
        /\ Matches # {} =>
              \E i \in Matches :
                  /\ \A k \in Matches : i <= k
                  /\ ret = args.datafiles[i]["data"]

\* a name stored twice with different data has been looked up
Wit_C7 ==
    /\ LookedUp
    /\ Cardinality(Matches) = 2
    /\ \E i, k \in Matches : args.datafiles[i]["data"] # args.datafiles[k]["data"]
    /\ ret # <<>>

----------------------------------------------------------------------------
(* Master: the construction of the collectors, and Master.build *)

\* extract_data on the post files in the order of the directory listing,
\* each given by its path, its metadata object and its markdown body
Collected(files) ==
    [i \in 1..Len(files) |->
        PostRecord(files[i].path, files[i].json, files[i].markdown)]

\* self.datafiles = self.parse_date(), given the outcome r of parse_date
PostCollectorDatafiles(r) ==
    [raised |-> r.raised,
     datafiles |-> IF r.raised = "none" THEN r.value ELSE r.datafiles]

\* a faulty variant that attaches the dates and keeps the collection order
PostCollectorInitUnsorted(files, date_format) ==
    [raised |-> AttachDates(Collected(files), date_format).raised,
     datafiles |-> AttachDates(Collected(files), date_format).value]

\* PostCollector.__init__: extract_data, then
\* self.datafiles = self.parse_date()
PostCollectorInit(files, date_format) ==
    PostCollectorDatafiles(parse_date(Collected(files), date_format))

\* jinja2.Template(source) on what getdatafile returns: the text of a
\* template, or the [] of a name that is not stored, which is no template
\* source and a TypeError; the texts of the model's templates are not empty,
\* so <<>> is the [] only
Template(source) ==
    IF source = <<>> THEN [raised |-> "TypeError", value |-> <<>>]
    ELSE [raised |-> "none", value |-> source]

\* the rendering collaborator: the page made from a template and variables
Render(template, variables) == [template |-> template, variables |-> variables]

\* the directories of the output
BuildDir == <<"build">>
PublicDir == <<"build", "static">>
PostsDir == <<"build", "posts">>

\* the file name a config value stands for
NameOfOption(value) ==
    CASE value = "home.html" -> <<"home", "html">>
      [] value = "main.html" -> <<"main", "html">>

\* the characters of a config value that is a date format
FormatOfOption(value) ==
    CASE value = "%d%m%y" -> <<"%", "d", "%", "m", "%", "y">>
      [] value = "%Y%m%d" -> <<"%", "Y", "%", "m", "%", "d">>

\* {file_["filename"]: file_["data"] for file_ in datafiles}
DataObject(datafiles) ==
    [f \in {datafiles[i]["filename"] : i \in 1..Len(datafiles)} |->
        datafiles[CHOOSE i \in 1..Len(datafiles) :
                     /\ datafiles[i]["filename"] = f
                     /\ \A k \in (i+1)..Len(datafiles) : datafiles[k]["filename"] # f]["data"]]

\* the metadata of the post files: dates of 1969 and 2068 under the default
\* format; in a second category a date with a digit outside ASCII, which is
\* of 2000 under the default format and no date under the format of year,
\* month and day; an object without "category" and one without "date"
BuildPostMetadata ==
    { [category |-> <<"a">>, date |-> <<"0","1","0","1","6","9">>],
      [category |-> <<"a">>, date |-> <<"0","1","0","1","6","8">>],
      [category |-> <<"b", "C">>, date |-> <<"1","U+0662","0","1","0","0">>],
      [date |-> <<"0","1","0","1","6","8">>],
      [category |-> <<"a">>] }
IndexNames == {<<"projects">>, <<"index">>}

\* the text of projects.csv: three records of two categories, one value
\* quoted
\*   id,category
\*   3,a
\*   2,"bC"
\*   1,a
ProjectsCsv ==
    <<"i", "d", ",", "c", "a", "t", "e", "g", "o", "r", "y", "\n", "3",
      ",", "a", "\n", "2", ",", "\"", "b", "C", "\"", "\n", "1", ",", "a",
      "\n">>

\* texts of talks.csv: a file without a category column, with an empty
\* line and lines that end in "\r\n"; a file of no lines; and a file with a
\* row longer than its headings
TalksCsvs ==
    { <<"i", "d", "\r", "\n", "\r", "\n", "1", "\r", "\n">>,
      <<>>,
      <<"i", "d", "\n", "1", ",", "2", "\n">> }

\* the data directories: projects.csv with each talks.csv
DataDirs ==
    {[p \in {<<"projects", "csv">>, <<"talks", "csv">>} |->
         IF p[1] = "projects" THEN ProjectsCsv ELSE talks] : talks \in TalksCsvs}

\* the template files of a directory of the names
TemplateFiles(names) == [p \in {<<n, "html">> : n \in names} |-> <<"template-of", p[1]>>]

\* the paths of n post files
BuildPostPaths(n) == {<<PostBaseNames[i], "md">> : i \in 1..n}

\* the config files: the names of the data indexes, and the date format or
\* "" for a file without one
UserConfig(indexs, date_format) ==
    IF date_format = "" THEN [data_indexs |-> indexs]
    ELSE [data_indexs |-> indexs, date_format |-> date_format]

\* the state when Master.__init__ has loaded the configuration and is about
\* to build the collectors, for the files and options given
InitMaster(datadirs, templates, metadata, indexs, formats) ==
    /\ pc = "start"
    /\ args = NoArgs
    /\ ret = <<>>
    /\ raised = "none"
    /\ \E data \in datadirs :
       \E n \in 0..MaxBuildPosts :
       \E posts \in [BuildPostPaths(n) -> metadata] :
          fs = [data |-> data,
                templates |-> TemplateFiles(templates),
                posts |-> [p \in BuildPostPaths(n) |->
                              [path |-> p, json |-> posts[p],
                               markdown |-> <<"#">>]],
                public |-> <<(<<"style", "css">>)>>]
    /\ \E data_indexs \in indexs : \E date_format \in formats :
          user_config = [bound |-> TRUE,
                         map |-> UserConfig(data_indexs, date_format)]
    /\ data_handle = <<>>
    /\ template_handle = <<>>
    /\ post_handle = <<>>
    /\ written = <<>>

\* a site of varied posts and data files, with the templates dir, essay and
\* home, so that the page of a data index, projects or talks, is not made
Init ==
    InitMaster(DataDirs, {"dir", "essay", "home"}, BuildPostMetadata,
               SeqUpTo({<<"projects">>, <<"talks">>}, MaxFailedIndexs),
               {"", "%Y%m%d"})

\* a site of varied data indexes with a template for each, and posts of one
\* date
InitPages ==
    InitMaster({[p \in {<<"projects", "csv">>} |-> ProjectsCsv]},
               {"projects", "index", "dir", "essay", "home"},
               {[category |-> <<"a">>, date |-> <<"0","1","0","1","6","9">>]},
               SeqUpTo(IndexNames, MaxIndexs), {""})

\* self.data_handle = DataCollector(...): the data files are read in the
\* order os.listdir gives them, which is any order
ConstructData ==
    /\ pc = "start"
    /\ \E listing \in Listings(fs.data) :
       \E r \in {DataExtractFrom(listing, fs.data, 1, <<>>)} :
           /\ data_handle' = r.value
           /\ raised' = r.raised
           /\ pc' = IF r.raised = "none" THEN "data_constructed" ELSE "failed"
           /\ args' = [op |-> "Master.__init__", listing |-> listing]
    /\ UNCHANGED <<ret, fs, user_config, template_handle, post_handle, written>>

\* self.template_handle = TemplateCollector(...)
ConstructTemplates ==
    /\ pc = "data_constructed"
    /\ \E listing \in Listings(fs.templates) :
           /\ template_handle' = TemplateExtract(listing, fs.templates, <<>>)
           /\ args' = [op |-> "Master.__init__", listing |-> listing]
    /\ pc' = "templates_constructed"
    /\ UNCHANGED <<ret, raised, fs, user_config, data_handle, post_handle, written>>

\* self.post_handle = PostCollector(...), the end of Master.__init__; the
\* post files are read in the order os.listdir gives them, which is any order
ConstructPosts ==
    /\ pc = "templates_constructed"
    /\ \E listing \in Listings(fs.posts) :
       \E r \in {PostCollectorInit(
                    [i \in 1..Len(listing) |-> fs.posts[listing[i]]],
                    FormatOfOption(getconf(user_config, "date_format").value))} :
           /\ post_handle' = r.datafiles
           /\ raised' = r.raised
           /\ pc' = IF r.raised = "none" THEN "constructed" ELSE "failed"
           /\ args' = [op |-> "Master.__init__", listing |-> listing]
    /\ UNCHANGED <<ret, fs, user_config, data_handle, template_handle, written>>

\* build, up to the loop over the data indexes: the folders, and the copy
\* of the public files
CopyPublic ==
    /\ pc = "constructed"
    /\ written' = written \o
          [k \in 1..Len(fs.public) |->
              [step |-> "static",
               path |-> [dir |-> PublicDir, file |-> fs.public[k]],
               content |-> [copy_of |-> fs.public[k]]]]
    /\ args' = [op |-> "build", step |-> "data_index", i |-> 1]
    /\ pc' = "data_index"
    /\ UNCHANGED <<ret, raised, fs, user_config, data_handle, template_handle,
                   post_handle>>

\* the build stops at the step named, with the error raised in it
Abort(step, i, error) ==
    /\ args' = [op |-> "build", step |-> step, i |-> i]
    /\ raised' = error
    /\ pc' = "failed"
    /\ UNCHANGED written

\* the step named has written the page of the file in the directory
Write(step, dir, file, content) ==
    written' = Append(written,
                      [step |-> step, path |-> [dir |-> dir, file |-> file],
                       content |-> content])

\* one pass of the loop over getconf("data_indexs") for index file_: the
\* groups are made by parse_categories, then the template is made of what
\* getdatafile gives, the page is rendered with the groups, and written
DataIndexStep(file_, data, template) ==
    IF data.raised # "none" THEN Abort("data_index", args.i, data.raised)
    ELSE IF template.raised # "none"
    THEN Abort("data_index", args.i, template.raised)
    ELSE \E rendered \in BOOLEAN :
            IF rendered
            THEN /\ Write("data_index", BuildDir, UtilsExt(file_, "html"),
                          Render(template.value, [data |-> data.value]))
                 /\ args' = [args EXCEPT !.i = @ + 1]
                 /\ UNCHANGED <<pc, raised>>
            ELSE Abort("data_index", args.i, "TemplateError")

DataIndexPage ==
    /\ pc = "data_index"
    /\ args.i <= Len(getconf(user_config, "data_indexs").value)
    /\ DataIndexStep(getconf(user_config, "data_indexs").value[args.i],
                     DataParseCategories(
                         data_handle,
                         getconf(user_config, "data_indexs").value[args.i]),
                     Template(getdatafile(
                         template_handle,
                         getconf(user_config, "data_indexs").value[args.i])))
    /\ UNCHANGED <<ret, fs, user_config, data_handle, template_handle, post_handle>>

\* the post index, of the groups made by parse_categories and the template
\* dir, then the template of the posts
PostIndexStep(posts, dir, essay) ==
    IF posts.raised # "none" THEN Abort("post_index", 1, posts.raised)
    ELSE IF dir.raised # "none" THEN Abort("post_index", 1, dir.raised)
    ELSE \E rendered \in BOOLEAN :
            IF ~rendered THEN Abort("post_index", 1, "TemplateError")
            ELSE /\ Write("post_index", PostsDir, UtilsExt(<<"index">>, "html"),
                          Render(dir.value, [data |-> posts.value]))
                 /\ IF essay.raised # "none"
                    THEN /\ args' = [op |-> "build", step |-> "essay_template", i |-> 1]
                         /\ raised' = essay.raised
                         /\ pc' = "failed"
                    ELSE \E compiled \in BOOLEAN :
                            IF compiled
                            THEN /\ args' = [op |-> "build", step |-> "posts", i |-> 1]
                                 /\ pc' = "posts"
                                 /\ UNCHANGED raised
                            ELSE /\ args' = [op |-> "build", step |-> "essay_template",
                                             i |-> 1]
                                 /\ raised' = "TemplateError"
                                 /\ pc' = "failed"

PostIndexPage ==
    /\ pc = "data_index"
    /\ args.i > Len(getconf(user_config, "data_indexs").value)
    /\ PostIndexStep(PostParseCategories(post_handle),
                     Template(getdatafile(template_handle, <<"dir">>)),
                     Template(getdatafile(template_handle, <<"essay">>)))
    /\ UNCHANGED <<ret, fs, user_config, data_handle, template_handle, post_handle>>

\* a faulty variant that goes on to the next post when a post fails to render
PostPageSkipFailed ==
    /\ pc = "posts"
    /\ args.i <= Len(post_handle)
    /\ \E rendered \in BOOLEAN :
          /\ IF rendered
             THEN Write("post", PostsDir, post_handle[args.i]["filename"],
                        Render(getdatafile(template_handle, <<"essay">>),
                               [post |-> post_handle[args.i]]))
             ELSE UNCHANGED written
          /\ args' = [args EXCEPT !.i = @ + 1]
          /\ UNCHANGED <<pc, raised>>
    /\ UNCHANGED <<ret, fs, user_config, data_handle, template_handle, post_handle>>

\* one pass of the loop over self.post_handle.datafiles
PostPage ==
    /\ pc = "posts"
    /\ args.i <= Len(post_handle)
    /\ \E rendered \in BOOLEAN :
          IF rendered
          THEN /\ Write("post", PostsDir, post_handle[args.i]["filename"],
                        Render(getdatafile(template_handle, <<"essay">>),
                               [post |-> post_handle[args.i]]))
               /\ args' = [args EXCEPT !.i = @ + 1]
               /\ UNCHANGED <<pc, raised>>
          ELSE Abort("posts", args.i, "TemplateError")
    /\ UNCHANGED <<ret, fs, user_config, data_handle, template_handle, post_handle>>

\* the home page, written as the index.html of the build directory
HomeStep(index_template) ==
    IF index_template.raised # "none" THEN Abort("home", 1, index_template.raised)
    ELSE \E rendered \in BOOLEAN :
            IF rendered
            THEN /\ Write("home", BuildDir, UtilsExt(<<"index">>, "html"),
                          Render(index_template.value,
                                 [data |-> DataObject(data_handle),
                                  posts |-> post_handle]))
                 /\ args' = [op |-> "build", step |-> "done", i |-> 1]
                 /\ pc' = "done"
                 /\ UNCHANGED raised
            ELSE Abort("home", 1, "TemplateError")

HomePage ==
    /\ pc = "posts"
    /\ args.i > Len(post_handle)
    /\ HomeStep(Template(getdatafile(
           template_handle,
           UtilsFilename(NameOfOption(getconf(user_config, "home_template").value)))))
    /\ UNCHANGED <<ret, fs, user_config, data_handle, template_handle, post_handle>>

Next ==
    \/ ConstructData
    \/ ConstructTemplates
    \/ ConstructPosts
    \/ CopyPublic
    \/ DataIndexPage
    \/ PostIndexPage
    \/ PostPage
    \/ HomePage

Spec == Init /\ [][Next]_vars

SpecPages == InitPages /\ [][Next]_vars

----------------------------------------------------------------------------
(* Claims about the post collector during the build *)

\* the post collector has been constructed
PostsConstructed ==
    pc \in {"constructed", "data_index", "posts", "done"}
        \/ (pc = "failed" /\ args.op = "build")

\* the posts s are in most-recent-first order
RecentFirst(s) ==
    \A k \in 1..(Len(s) - 1) : ~DateTimeLess(s[k]["datetime"], s[k + 1]["datetime"])

\* the posts of the post pages written so far, in the order of writing
IsPostEvent(e) == e.step = "post"
PostsWritten ==
    LET pages == SelectSeq(written, IsPostEvent)
    IN  [k \in 1..Len(pages) |-> pages[k].content.variables.post]

\* C8: once the post collector is constructed its datafiles is the
\* date-sorted list: at every later point of the build every stored post has
\* a "datetime" and datafiles is ordered non-increasing by it, and so are
\* the post pages written, the post list of the home page and the entries of
\* each post category group.
Thm_C8 ==
    PostsConstructed =>
        /\ Len(post_handle) = Cardinality(DOMAIN fs.posts)
        /\ \A k \in 1..Len(post_handle) : "datetime" \in DOMAIN post_handle[k]
        /\ RecentFirst(post_handle)
        /\ RecentFirst(PostsWritten)
        /\ \A e \in 1..Len(written) :
              /\ written[e].step = "home" =>
                    /\ written[e].content.variables.posts = post_handle
                    /\ RecentFirst(written[e].content.variables.posts)
              /\ written[e].step = "post_index" =>
                    \A g \in 1..Len(written[e].content.variables.data) :
                        RecentFirst(written[e].content.variables.data[g].entries)

\* a build has ended whose two posts, of one category, are p1 of 1969 and
\* p2 of 2068, and the page of p2 was written before that of p1
Wit_C8 ==
    /\ pc = "done"
    /\ Cardinality(DOMAIN fs.posts) = 2
    /\ fs.posts[<<"p1", "md">>].json["date"] = <<"0","1","0","1","6","9">>
    /\ fs.posts[<<"p2", "md">>].json["date"] = <<"0","1","0","1","6","8">>
    /\ fs.posts[<<"p1", "md">>].json["category"] = fs.posts[<<"p2", "md">>].json["category"]
    /\ post_handle[1]["filename"] = <<"p2", "html">>
    /\ Len(PostsWritten) = 2

----------------------------------------------------------------------------
(* Claims about the order of the build *)

IsPageEvent(e) == e.step # "static"

\* the pages written so far, in the order of writing
PagesWritten == SelectSeq(written, IsPageEvent)

\* the pages of a complete build, in the order the claim gives
ExpectedPages ==
    LET indexs == user_config.map["data_indexs"]
    IN  [k \in 1..Len(indexs) |->
            [step |-> "data_index",
             path |-> [dir |-> <<"build">>, file |-> indexs[k] \o <<"html">>]]]
        \o <<[step |-> "post_index",
              path |-> [dir |-> <<"build", "posts">>, file |-> <<"index", "html">>]]>>
        \o [k \in 1..Len(post_handle) |->
               [step |-> "post",
                path |-> [dir |-> <<"build", "posts">>, file |-> post_handle[k]["filename"]]]]
        \o <<[step |-> "home",
              path |-> [dir |-> <<"build">>, file |-> <<"index", "html">>]]>>

\* the number of pages written before the step at which the build failed
PagesBeforeFailure ==
    LET n == Len(user_config.map["data_indexs"])
    IN  CASE args.step = "data_index" -> args.i - 1
          [] args.step = "post_index" -> n
          [] args.step = "essay_template" -> n + 1
          [] args.step = "posts" -> n + 1 + (args.i - 1)
          [] args.step = "home" -> n + 1 + Len(post_handle)

\* the root index.html of the build directory
RootIndex == [dir |-> <<"build">>, file |-> <<"index", "html">>]

\* the root index.html has been written
RootIndexWritten == \E k \in 1..Len(PagesWritten) : PagesWritten[k].path = RootIndex

\* the pages written are the first of the expected pages, all of them when
\* the build is done and those before the failed step when it failed
PagesInOrder ==
    /\ Len(PagesWritten) <= Len(ExpectedPages)
    /\ \A k \in 1..Len(PagesWritten) :
          /\ PagesWritten[k].step = ExpectedPages[k].step
          /\ PagesWritten[k].path = ExpectedPages[k].path
    /\ pc = "done" => Len(PagesWritten) = Len(ExpectedPages)
    /\ pc = "failed" => Len(PagesWritten) = PagesBeforeFailure

\* the order with the last part as stated: the root index.html exists only
\* if no step of the build failed
BuildOrderAsStated ==
    (PostsConstructed /\ pc # "constructed") =>
        /\ PagesInOrder
        /\ RootIndexWritten => pc # "failed"

BuildOrder ==
    (PostsConstructed /\ pc # "constructed") =>
        /\ PagesInOrder
        /\ (\E k \in 1..Len(PagesWritten) : PagesWritten[k].step = "home") => pc = "done"
        /\ \A k \in 1..Len(PagesWritten) :
              PagesWritten[k].path = RootIndex =>
                  \/ PagesWritten[k].step = "home"
                  \/ /\ PagesWritten[k].step = "data_index"
                     /\ user_config.map["data_indexs"][k] = <<"index">>

\* a step of the build starts in a state that has not failed and keeps the
\* files written before it
BuildStep ==
    /\ pc # "failed"
    /\ Len(written') >= Len(written)
    /\ SubSeq(written', 1, Len(written)) = written

\* C10 as stated: the pages are written in the order data-index pages,
\* posts/index.html, post pages, home page; a failed step ends the build
\* with the earlier files kept, so that the root index.html exists only if
\* all earlier steps succeeded.
Cex_C10 == []BuildOrderAsStated /\ [][BuildStep]_vars

\* C10: the pages are written in the order data-index pages (in configured
\* order), posts/index.html, one page per post, and the home page as the
\* root index.html last; a failed step ends the build at that step, no
\* later page is written and the files written before stay, so that the
\* home page is written only when every earlier step succeeded, and a root
\* index.html of a failed build is the page of a data index named "index".
Thm_C10 == []BuildOrder /\ [][BuildStep]_vars

\* a build wrote the pages of the data indexes projects and index, the post
\* index and one post page, and failed at the second post, with the root
\* index.html on disk
Wit_C10 ==
    /\ pc = "failed" /\ args.op = "build" /\ args.step = "posts" /\ args.i = 2
    /\ user_config.map["data_indexs"] = <<(<<"projects">>), (<<"index">>)>>
    /\ Len(post_handle) = 2
    /\ Len(PagesWritten) = 4
    /\ RootIndexWritten

====
